---- MODULE Spec2Model ----
(***************************************************************************)
(* Connection-level engine of the MongoDB Node driver                      *)
(* (src/src/cmap/connection.ts): the callback engine `Connection` with its *)
(* pending-operation map, and the promise engine `ModernConnection`.       *)
(* One connection is modelled; `engine` says which class it is.            *)
(***************************************************************************)
EXTENDS Integers, Sequences, FiniteSets, TLC

\* ------------------------------------------------------------- bounds
MaxCmds == 2        \* command calls made on the connection
MaxDestroys == 2    \* destroy calls made on the connection
MaxTimers == 1      \* socket 'timeout' events (each arms one delayed timer)
MaxCalls == 2       \* replies delivered to one command's callback (exhaust)
MaxReplies == 3     \* length of the reply sequences fed to one exhaust operation
MaxFrames == 2      \* messages the peer writes to the socket
MaxMessage == 5     \* maxBsonMessageSize of the handshake reply, where there is one
kDefaultMaxBsonMessageSize == 67108864
MaxClusterTime == 2 \* cluster times known to a connection or a session: 1..MaxClusterTime
MaxGeneration == 2  \* pool generations a connection is created in or set to: 0..MaxGeneration
MaxSocketTimeout == 1 \* socketTimeoutMS of a connection: 0..MaxSocketTimeout
MaxClock == 1       \* the readings of now(): 0..MaxClock
MaxWireVersion == 9 \* the wire versions a handshake negotiates: 1..MaxWireVersion
MinWireVersionForEncryption == 8

Cmds == 1..MaxCmds
Destroys == 1..MaxDestroys
TimerIds == 1..MaxTimers
\* request ids: command c is sent under request id c; MaxCmds + 1 is an id
\* no command of this connection ever uses
Ids == 1..(MaxCmds + 1)

VARIABLES
  engine,                 \* "callback" (Connection) or "modern" (ModernConnection)
  closed,                 \* Connection.closed
  kQueue,                 \* Connection[kQueue]: request id -> operation (its command)
  cb,                     \* per command: how often its callback ran
  streamDestroyed,        \* kStream.destroyed
  writableEnded,          \* kStream.writableEnded
  endPending,             \* kStream.end(cb) called by cleanup, cb not yet run
  cleanupError,           \* the error a cleanup in progress was called with
  startPending,           \* commands in kQueue when the cleanup in progress started
  closeEmitted,           \* number of CLOSE events emitted
  closeView,              \* what held when CLOSE was emitted
  closeListeners,         \* once('close') listeners registered by destroy
  tickQueue,              \* process.nextTick queue (destroy callbacks)
  destroys,               \* per destroy call: its callback's state
  nextDestroy,
  timers,                 \* delayed timers armed and not yet fired or cleared
  kDelayedTimeoutId,      \* Connection[kDelayedTimeoutId] (0 = null)
  nextTimer,
  hello,                  \* a handshake reply has been recorded
  isMonitoringConnection,
  monitorCommands,
  nextCmd,
  controllerAborted,      \* ModernConnection: controller.signal.aborted
  socketClosed,           \* ModernConnection: the socket's 'close' event has fired
  pc,                     \* ModernConnection: where each command call is suspended
  sigCur,                 \* calls whose captured signal is the current controller's
  held,                   \* the reply a call's readMany is holding
  res,                    \* how each call settled, or the error about to reject it
  noResp,                 \* commands called with options.noResponse
  exhaust,                \* ModernConnection: calls made through exhaustCommand
  sent,                   \* the declared lengths of the messages the peer wrote
  socketData,             \* the bytes the socket has still to deliver
  bufferPool,             \* readWireProtocolMessages: the bytes buffered
  maxBsonMessageSize,     \* readWireProtocolMessages: the limit it read at its start
  yielded,                \* the messages readWireProtocolMessages yielded, in order
  framing,                \* "reading", or "failed" once it threw MongoParseError
  callArgs,               \* command assembly: the caller's document, connection and options
  assembled,              \* command assembly: what the call left behind
  kGeneration,            \* this[kGeneration]
  kClusterTime,           \* Connection[kClusterTime] (0 = null)
  clock,                  \* what now() returns
  kLastUseTime,           \* this[kLastUseTime]
  crypto,                 \* CryptoConnection: its auto-encrypter and the command call
  socketTimeoutMS,        \* Connection.socketTimeoutMS (options.socketTimeoutMS ?? 0)
  streamTimeout,          \* Connection: kStream.timeout, as write and onMessage set it
  envOptions,             \* MongoLogger.resolveOptions: MONGODB_LOG_* per component
  clientOptions,          \* MongoLogger.resolveOptions: mongodbLogComponentSeverities
  loggerOptions,          \* MongoLogger.resolveOptions: what it returned
  last                    \* the last step: the handler that ran and whom it served

vars == <<engine, closed, kQueue, cb, streamDestroyed, writableEnded, endPending,
          cleanupError, startPending, closeEmitted, closeView, closeListeners, tickQueue,
          destroys, nextDestroy, timers, kDelayedTimeoutId, nextTimer, hello,
          isMonitoringConnection, monitorCommands, nextCmd, controllerAborted,
          socketClosed, pc, sigCur, held, res, noResp, exhaust, sent, socketData,
          bufferPool, maxBsonMessageSize, yielded, framing, callArgs, assembled, kGeneration, kClusterTime, clock, kLastUseTime, crypto,
          socketTimeoutMS, streamTimeout,
          envOptions, clientOptions, loggerOptions, last>>

\* ------------------------------------------------------------- values
Remove(f, k) == [x \in (DOMAIN f) \ {k} |-> f[x]]
Put(f, k, v) == [x \in (DOMAIN f) \cup {k} |-> IF x = k THEN v ELSE f[x]]
Range(f) == {f[x] : x \in DOMAIN f}
EmptyMap == [x \in {} |-> 0]

\* a reply document: ok is 0, 1 or 2 (the field is absent)
NoDoc == [present |-> FALSE, ok |-> 2, dollarErr |-> FALSE, errmsg |-> FALSE, wce |-> FALSE,
          clusterTime |-> 0]
Doc(ok, dollarErr, errmsg, wce) ==
  [present |-> TRUE, ok |-> ok, dollarErr |-> dollarErr, errmsg |-> errmsg, wce |-> wce,
   clusterTime |-> 0]
\* the document d carrying $clusterTime ct
DocAt(d, ct) == [d EXCEPT !.clusterTime = ct]
Docs == { Doc(1, FALSE, FALSE, FALSE),    \* { ok: 1 }
          Doc(0, FALSE, TRUE, FALSE),     \* { ok: 0, errmsg, code }
          Doc(1, FALSE, TRUE, FALSE),     \* { ok: 1, code }
          Doc(1, FALSE, FALSE, TRUE),     \* { ok: 1, writeConcernError }
          Doc(2, FALSE, FALSE, TRUE),     \* { writeConcernError }
          Doc(1, TRUE, FALSE, TRUE) }     \* { ok: 1, $err, writeConcernError }

\* an inbound message; requestId is read only when moreToCome is set, and the
\* documents only when parse does not throw
Message(r, q, m, p, d) ==
  [responseTo |-> r, requestId |-> q, moreToCome |-> m, parseThrows |-> p, doc |-> d]
Messages ==
  { Message(r, 0, FALSE, FALSE, d) : r \in Ids, d \in Docs \cup {NoDoc} }
    \cup { Message(r, q, TRUE, FALSE, d) : r \in Ids, q \in Ids, d \in Docs \cup {NoDoc} }
    \cup { Message(r, 0, FALSE, TRUE, NoDoc) : r \in Ids }
    \cup { Message(r, q, TRUE, TRUE, NoDoc) : r \in Ids, q \in Ids }

NoMessage == Message(0, 0, FALSE, FALSE, NoDoc)
\* how the promise of a ModernConnection command settled: kind "ok" resolves, any
\* other kind names the error it rejected with; an "abortError" is the AbortError
\* events.on raises, whose cause is the signal's reason
Res(kind, cause) == [kind |-> kind, cause |-> cause]
NoRes == Res("none", "none")
NoCb == [calls |-> 0, closeErrs |-> 0]
NoDestroy == [st |-> "idle", calls |-> 0, closeSeen |-> 0]
NoView == [pending |-> {}, unfailed |-> {}]
\* what one handler run delivered: the commands whose callback ran, the arguments
\* they received and the monitoring event emitted
NoOut == [called |-> {}, err |-> "none", doc |-> FALSE, reply |-> NoDoc, ev |-> "none",
          events |-> <<>>, clusterTimeReceived |-> <<>>,
          seen |-> [clusterTime |-> 0, clusterTimeReceived |-> <<>>]]
NoLast == [op |-> "init", id |-> 0]
Did(op, id) == [op |-> op, id |-> id]

\* ------------------------------------------------- the connection as a value
\* The fields a handler of Connection reads and writes, so that a handler's
\* sequential code is a composition of operators; out is what this run of the
\* handler has delivered so far.
Cur ==
  [closed |-> closed, kQueue |-> kQueue, cb |-> cb,
   streamDestroyed |-> streamDestroyed, writableEnded |-> writableEnded,
   endPending |-> endPending, cleanupError |-> cleanupError,
   startPending |-> startPending, closeEmitted |-> closeEmitted,
   closeView |-> closeView, closeListeners |-> closeListeners,
   tickQueue |-> tickQueue, destroys |-> destroys, timeout |-> streamTimeout,
   clusterTime |-> kClusterTime, lastUseTime |-> kLastUseTime, out |-> NoOut]

Becomes(s) ==
  /\ closed' = s.closed
  /\ kQueue' = s.kQueue
  /\ cb' = s.cb
  /\ streamDestroyed' = s.streamDestroyed
  /\ writableEnded' = s.writableEnded
  /\ endPending' = s.endPending
  /\ cleanupError' = s.cleanupError
  /\ startPending' = s.startPending
  /\ closeEmitted' = s.closeEmitted
  /\ closeView' = s.closeView
  /\ closeListeners' = s.closeListeners
  /\ tickQueue' = s.tickQueue
  /\ destroys' = s.destroys
  /\ streamTimeout' = s.timeout
  /\ kClusterTime' = s.clusterTime
  /\ kLastUseTime' = s.lastUseTime

\* the caller's callback of command c receives (err, doc)
UserCallback(s, c, err, doc, closing) ==
  [s EXCEPT !.cb[c] = [calls |-> @.calls + 1,
                       closeErrs |-> @.closeErrs + (IF closing THEN 1 ELSE 0)],
            !.out.called = @ \cup {c},
            !.out.err = err,
            !.out.doc = doc.present,
            !.out.reply = doc,
            !.out.seen = [clusterTime |-> s.clusterTime,
                          clusterTimeReceived |-> s.out.clusterTimeReceived]]

\* write(): with command monitoring the operation's cb is a wrapper that emits
\* one event and then calls the caller's callback
\* the wrapper without its COMMAND_FAILED branch
MonitoredCbNoFailed(s, c, err, reply, closing) ==
  LET failed == IF err # "none" /\ ~(reply.present /\ reply.ok = 1)
                THEN TRUE
                ELSE reply.present /\ (reply.ok = 0 \/ reply.dollarErr)
      s1 == IF failed THEN s
            ELSE [s EXCEPT !.out.ev = "succeeded",
                           !.out.events = Append(@, <<"succeeded", c>>)]
  IN UserCallback(s1, c, err, IF err = "wce" THEN NoDoc ELSE reply, closing)

MonitoredCb(s, c, err, reply, closing) ==
  LET failed == IF err # "none" /\ ~(reply.present /\ reply.ok = 1)
                THEN TRUE
                ELSE reply.present /\ (reply.ok = 0 \/ reply.dollarErr)
      ev == IF failed THEN "failed" ELSE "succeeded"
      s1 == [s EXCEPT !.out.ev = ev, !.out.events = Append(@, <<ev, c>>)]
  IN UserCallback(s1, c, err, IF err = "wce" THEN NoDoc ELSE reply, closing)

OpCb(s, c, err, reply, closing) ==
  IF monitorCommands THEN MonitoredCb(s, c, err, reply, closing)
  ELSE UserCallback(s, c, err, reply, closing)

\* emit(CLOSE): every once('close') listener of destroy queues its callback
EmitClose(s) ==
  [s EXCEPT !.closeEmitted = @ + 1,
            !.closeView = [pending |-> DOMAIN s.kQueue,
                           unfailed |-> s.startPending \ s.out.called],
            !.tickQueue = @ \o s.closeListeners,
            !.destroys = [d \in Destroys |->
                            IF \E i \in DOMAIN s.closeListeners : s.closeListeners[i] = d
                            THEN [@[d] EXCEPT !.st = "ticked"] ELSE @[d]],
            !.closeListeners = <<>>]

\* completeCleanup's loop: op.cb(error) for every entry of the pending map
RECURSIVE FailAll(_, _, _)
FailAll(s, ops, error) ==
  IF ops = {} THEN s
  ELSE LET c == CHOOSE x \in ops : TRUE
       IN FailAll(OpCb(s, c, error, NoDoc, TRUE), ops \ {c}, error)

\* cleanup's completeCleanup closure
CompleteCleanup(s, error) ==
  LET s1 == EmitClose([FailAll(s, Range(s.kQueue), error) EXCEPT !.kQueue = EmptyMap])
  IN [s1 EXCEPT !.cleanupError = "none", !.startPending = {}]

\* mutant: cleanup without the closed latch
CleanupUnlatched(s, force, error) ==
  LET s1 == [s EXCEPT !.closed = TRUE, !.cleanupError = error,
                      !.startPending = Range(s.kQueue)]
  IN IF force
     THEN CompleteCleanup([s1 EXCEPT !.streamDestroyed = TRUE], error)
     ELSE IF ~s1.writableEnded
          THEN [s1 EXCEPT !.writableEnded = TRUE, !.endPending = TRUE]
          ELSE CompleteCleanup(s1, error)

Cleanup(s, force, error) ==
  IF s.closed THEN s
  ELSE LET s1 == [s EXCEPT !.closed = TRUE, !.cleanupError = error,
                           !.startPending = Range(s.kQueue)]
       IN IF force
          THEN CompleteCleanup([s1 EXCEPT !.streamDestroyed = TRUE], error)
          ELSE IF ~s1.writableEnded
               THEN [s1 EXCEPT !.writableEnded = TRUE, !.endPending = TRUE]
               ELSE CompleteCleanup(s1, error)

\* ------------------------------------------------- Connection (callback engine)
\* the operation a message is matched to (0: none), with the orphan recovery of
\* monitoring connections
Unmatched(s, m) == m.responseTo \notin DOMAIN s.kQueue
\* mutant: the size check admits two pending operations
InvalidQueueSizeLax(s, m) ==
  Unmatched(s, m) /\ isMonitoringConnection /\ Cardinality(DOMAIN s.kQueue) > 2
InvalidQueueSize(s, m) ==
  Unmatched(s, m) /\ isMonitoringConnection /\ Cardinality(DOMAIN s.kQueue) > 1
\* mutant: no orphan recovery
OrphanKeyNone(s, m) == 0
OrphanKey(s, m) ==
  IF Unmatched(s, m) /\ isMonitoringConnection /\ ~InvalidQueueSize(s, m)
     /\ DOMAIN s.kQueue # {}
  THEN CHOOSE k \in DOMAIN s.kQueue : TRUE
  ELSE 0
\* mutant: the orphaned operation is taken on every connection
MatchedOpAnyConnection(s, m) ==
  IF ~Unmatched(s, m) THEN s.kQueue[m.responseTo]
  ELSE IF DOMAIN s.kQueue # {} /\ ~InvalidQueueSize(s, m)
       THEN s.kQueue[CHOOSE k \in DOMAIN s.kQueue : TRUE]
       ELSE 0
MatchedOp(s, m) ==
  IF ~Unmatched(s, m) THEN s.kQueue[m.responseTo]
  ELSE IF OrphanKey(s, m) # 0 THEN s.kQueue[OrphanKey(s, m)] ELSE 0

\* onMessage: a first document carrying $clusterTime sets kClusterTime and is
\* announced with CLUSTER_TIME_RECEIVED
ReceiveClusterTime(s, d) ==
  IF d.present /\ d.clusterTime # 0
  THEN [s EXCEPT !.clusterTime = d.clusterTime,
                 !.out.clusterTimeReceived = Append(@, d.clusterTime)]
  ELSE s

\* mutant: the server-error check comes before the writeConcernError check
DeliverServerFirst(s, op, m) ==
  LET s1 == ReceiveClusterTime(s, m.doc)
  IN IF m.parseThrows THEN OpCb(s, op, "bsonParse", NoDoc, FALSE)
     ELSE IF m.doc.present /\ (m.doc.ok = 0 \/ m.doc.dollarErr \/ m.doc.errmsg)
          THEN OpCb(s1, op, "server", NoDoc, FALSE)
     ELSE IF m.doc.present /\ m.doc.wce THEN OpCb(s1, op, "wce", m.doc, FALSE)
     ELSE OpCb(s1, op, "none", m.doc, FALSE)
\* mutant: the cluster time is recorded for successful replies only
DeliverClusterTimeLate(s, op, m) ==
  LET s1 == ReceiveClusterTime(s, m.doc)
  IN IF m.parseThrows THEN OpCb(s, op, "bsonParse", NoDoc, FALSE)
     ELSE IF m.doc.present /\ m.doc.wce THEN OpCb(s, op, "wce", m.doc, FALSE)
     ELSE IF m.doc.present /\ (m.doc.ok = 0 \/ m.doc.dollarErr \/ m.doc.errmsg)
          THEN OpCb(s, op, "server", NoDoc, FALSE)
     ELSE OpCb(s1, op, "none", m.doc, FALSE)

\* onMessage from message.parse on: what the operation's handler receives
Deliver(s, op, m) ==
  LET s1 == ReceiveClusterTime(s, m.doc)
  IN IF m.parseThrows THEN OpCb(s, op, "bsonParse", NoDoc, FALSE)
     ELSE IF m.doc.present /\ m.doc.wce THEN OpCb(s1, op, "wce", m.doc, FALSE)
     ELSE IF m.doc.present /\ (m.doc.ok = 0 \/ m.doc.dollarErr \/ m.doc.errmsg)
          THEN OpCb(s1, op, "server", NoDoc, FALSE)
     ELSE OpCb(s1, op, "none", m.doc, FALSE)

\* the pending map after a matched message: the entry leaves its key and, for a
\* moreToCome reply, returns under the reply's own request id
\* mutant: a moreToCome reply does not re-insert the operation
RequeueEnds(q, op, m) == Remove(q, m.responseTo)
\* mutant: the entry is not deleted from under responseTo
RequeueKeepsKey(q, op, m) ==
  IF m.moreToCome THEN Put(q, m.requestId, op) ELSE q
Requeue(q, op, m) ==
  LET q1 == Remove(q, m.responseTo)
  IN IF m.moreToCome THEN Put(q1, m.requestId, op) ELSE q1

OnMessageConn(s, m) ==
  LET op == MatchedOp(s, m)
      \* socketTimeoutMS = kStream.timeout ?? 0; kStream.setTimeout(0)
      s0 == [s EXCEPT !.timeout = 0]
      s1 == IF InvalidQueueSize(s, m) THEN Cleanup(s0, TRUE, "runtime") ELSE s0
      q1 == IF OrphanKey(s, m) # 0 THEN Remove(s1.kQueue, OrphanKey(s, m)) ELSE s1.kQueue
  IN IF op = 0 THEN s1
     ELSE Deliver([s1 EXCEPT !.kQueue = Requeue(q1, op, m),
                             !.timeout = IF m.moreToCome THEN s.timeout ELSE 0],
                  op, m)

\* write: no options.socketTimeoutMS is passed, so the stream's timeout is set
\* to the connection's socketTimeoutMS unless that is 0
ArmSocketTimeout(s) ==
  IF socketTimeoutMS # 0 THEN [s EXCEPT !.timeout = socketTimeoutMS] ELSE s

\* mutant: the entry is set whether or not a response is expected
WriteQueuesAll(s, c, noResponse, throws) ==
  LET s0 == IF monitorCommands
            THEN [ArmSocketTimeout(s) EXCEPT !.out.events = Append(@, <<"started", c>>)]
            ELSE ArmSocketTimeout(s)
      s1 == [s0 EXCEPT !.kQueue = Put(@, c, c)]
  IN IF throws /\ ~noResponse
     THEN OpCb([s1 EXCEPT !.kQueue = Remove(@, c)], c, "writeThrow", NoDoc, FALSE)
     ELSE IF noResponse THEN OpCb(s1, c, "none", NoDoc, FALSE) ELSE s1

\* mutant: dispatching a command counts as use
WriteMarksUse(s, c, noResponse, throws) ==
  LET s0 == IF monitorCommands
            THEN [ArmSocketTimeout(s) EXCEPT !.out.events = Append(@, <<"started", c>>)]
            ELSE ArmSocketTimeout(s)
      s1 == IF ~noResponse THEN [s0 EXCEPT !.kQueue = Put(@, c, c), !.lastUseTime = clock]
            ELSE s0
  IN IF throws /\ ~noResponse
     THEN OpCb([s1 EXCEPT !.kQueue = Remove(@, c)], c, "writeThrow", NoDoc, FALSE)
     ELSE IF noResponse THEN OpCb(s1, c, "none", NoDoc, FALSE) ELSE s1

\* write(conn, command, options, callback) for command c
Write(s, c, noResponse, throws) ==
  LET s0 == IF monitorCommands
            THEN [ArmSocketTimeout(s) EXCEPT !.out.events = Append(@, <<"started", c>>)]
            ELSE ArmSocketTimeout(s)
      s1 == IF ~noResponse THEN [s0 EXCEPT !.kQueue = Put(@, c, c)] ELSE s0
  IN IF throws /\ ~noResponse
     THEN OpCb([s1 EXCEPT !.kQueue = Remove(@, c)], c, "writeThrow", NoDoc, FALSE)
     ELSE IF noResponse THEN OpCb(s1, c, "none", NoDoc, FALSE) ELSE s1

\* writeCommand pushes the message to the socket unless it throws or the
\* message stream was destroyed by cleanup
Wrote(s, throws) == ~throws /\ ~s.closed

\* mutant: on a closed connection the callback is also left listening for CLOSE
DestroyConnListens(s, d, force) ==
  IF s.closed
  THEN [s EXCEPT !.tickQueue = Append(Append(@, d), d), !.destroys[d].st = "ticked"]
  ELSE Cleanup([s EXCEPT !.closeListeners = Append(@, d),
                         !.destroys[d].st = "listening"],
               force, "network")

\* Connection.destroy(options, callback) for destroy call d
DestroyConn(s, d, force) ==
  IF s.closed
  THEN [s EXCEPT !.tickQueue = Append(@, d), !.destroys[d].st = "ticked"]
  ELSE Cleanup([s EXCEPT !.closeListeners = Append(@, d),
                         !.destroys[d].st = "listening"],
               force, "network")

\* no bytes are modelled on the socket
NoFraming ==
  /\ sent = <<>>
  /\ socketData = <<>>
  /\ bufferPool = <<>>
  /\ maxBsonMessageSize = kDefaultMaxBsonMessageSize
  /\ yielded = <<>>
  /\ framing = "reading"

\* ------------------------------------------------- command assembly
\* A document is its top-level fields, Absent for a field it does not have; the
\* objects of one call are the caller's command (1), its copy (2) and the $query
\* wrapper (3).
Absent == 0
Fields == {"cmd", "apiVersion", "apiStrict", "apiDeprecationErrors", "lsid",
           "$clusterTime", "$query", "$readPreference"}
EmptyDoc == [f \in Fields |-> Absent]
Objects == 1..3
ClusterTimes == 0..MaxClusterTime
\* a value only the caller can have written
CallerValue == MaxClusterTime + 1
CallerCommands ==
  { [EmptyDoc EXCEPT !["cmd"] = 1],
    [EmptyDoc EXCEPT !["cmd"] = 1, !["apiVersion"] = CallerValue,
                     !["$clusterTime"] = CallerValue] }
NewHeap(command) == [o \in Objects |-> IF o = 1 THEN command ELSE EmptyDoc]

\* this.serverApi, hasSessionSupport, this.clusterTime, isSharded, supportsOpMsg
ServerApis == { [version |-> Absent, strict |-> Absent],
                [version |-> 1, strict |-> Absent],
                [version |-> 1, strict |-> 1] }
Conns == [serverApi : ServerApis, hasSessionSupport : BOOLEAN, clusterTime : ClusterTimes,
          sharded : BOOLEAN, supportsOpMsg : BOOLEAN]
\* options.session (with session.explicit and session.clusterTime), whether
\* applySession returns an error, and a read preference other than primary
Options == [session : {"none", "implicit", "explicit"}, sessionClusterTime : ClusterTimes,
            applyError : BOOLEAN, secondary : BOOLEAN]
CallArgs == [command : CallerCommands, conn : Conns, options : Options]
NoArgs == [command |-> EmptyDoc]
NoAssembled == [called |-> FALSE]
NoAssembly ==
  /\ callArgs = NoArgs
  /\ assembled = NoAssembled

\* let cmd = { ...command }
\* mutant: cmd is the caller's object
CopyCommandAlias(heap) == [cmd |-> 1, heap |-> heap]
CopyCommand(heap) == [cmd |-> 2, heap |-> [heap EXCEPT ![2] = heap[1]]]

\* applySession(session, cmd, options) with no error: the session id is merged
\* into cmd
ApplySession(heap, cmd) == [heap EXCEPT ![cmd]["lsid"] = 1]

\* the session branch of command / prepareCommand: the error it returns
\* mutant: an explicit session is let through
SessionErrorNone(conn, options) ==
  IF conn.hasSessionSupport /\ options.session # "none"
  THEN IF options.applyError THEN "session" ELSE "none"
  ELSE "none"
SessionError(conn, options) ==
  IF conn.hasSessionSupport /\ options.session # "none"
  THEN IF options.applyError THEN "session" ELSE "none"
  ELSE IF options.session = "explicit" THEN "compatibility" ELSE "none"

\* the cluster time command / prepareCommand gossips
GossipClusterTime(conn, options) ==
  IF /\ conn.hasSessionSupport /\ options.session # "none"
     /\ options.sessionClusterTime # Absent
     /\ conn.clusterTime # Absent
     /\ options.sessionClusterTime > conn.clusterTime
  THEN options.sessionClusterTime
  ELSE conn.clusterTime

\* Connection.command up to write(), and ModernConnection.prepareCommand: the
\* objects after the call, the outgoing command object and the error returned
PrepareCommand(heap, conn, options) ==
  LET copy == CopyCommand(heap)
      cmd == copy.cmd
      h1 == IF conn.serverApi.version # Absent
            THEN [copy.heap EXCEPT
                    ![cmd]["apiVersion"] = conn.serverApi.version,
                    ![cmd]["apiStrict"] = IF conn.serverApi.strict # Absent
                                          THEN conn.serverApi.strict ELSE @]
            ELSE copy.heap
      error == SessionError(conn, options)
      h2 == IF conn.hasSessionSupport /\ options.session # "none" /\ ~options.applyError
            THEN ApplySession(h1, cmd) ELSE h1
      clusterTime == GossipClusterTime(conn, options)
      h3 == IF clusterTime # Absent THEN [h2 EXCEPT ![cmd]["$clusterTime"] = clusterTime]
            ELSE h2
      wrap == conn.sharded /\ ~conn.supportsOpMsg /\ options.secondary
      h4 == IF wrap
            THEN [h3 EXCEPT ![3] = [EmptyDoc EXCEPT !["$query"] = cmd,
                                                    !["$readPreference"] = 1]]
            ELSE h3
  IN IF error # "none" THEN [heap |-> h2, cmd |-> cmd, wrapper |-> 0, error |-> error]
     ELSE [heap |-> h4, cmd |-> cmd, wrapper |-> IF wrap THEN 3 ELSE 0, error |-> "none"]

\* ------------------------------------------------------------- logger options
\* the components of LogComponentSeveritiesClientOptions; the environment names
\* them MONGODB_LOG_COMMAND, ..., and MONGODB_LOG_ALL for default
Components == {"command", "topology", "serverSelection", "connection", "client", "default"}
SeverityLevel == {"emergency", "alert", "critical", "error", "warn", "notice", "info",
                  "debug", "trace", "off"}
Unset == "undefined"
\* the strings an option is set to: two severities, one in capitals, and a word
\* that is no severity
OptionValues == {Unset, "debug", "INFO", "verbose"}
ToLowerCase(s) == IF s = "INFO" THEN "info" ELSE s
\* parseSeverityFromString: the severity in lower case, or Unset (null)
ParseSeverityFromString(s) ==
  IF s # Unset /\ ToLowerCase(s) \in SeverityLevel THEN ToLowerCase(s) ELSE Unset
\* a ?? b
Coalesce(a, b) == IF a # Unset THEN a ELSE b
ResolveSeverityConfiguration(clientOption, environmentOption, defaultSeverity) ==
  Coalesce(ParseSeverityFromString(clientOption),
           Coalesce(ParseSeverityFromString(environmentOption), defaultSeverity))
\* the componentSeverities of the MongoLoggerOptions resolveOptions returns
ResolveOptions(env, client) ==
  LET defaultSeverity == ResolveSeverityConfiguration(client["default"], env["default"], "off")
  IN [c \in Components |->
        IF c = "default" THEN defaultSeverity
        ELSE ResolveSeverityConfiguration(client[c], env[c], defaultSeverity)]
NoOptions == [c \in Components |-> Unset]
\* a connection that is no CryptoConnection
NoCryptoCall ==
  [pc |-> "idle", cmd |-> 0, encryptCalls |-> 0, decryptCalls |-> 0, base |-> "none",
   baseResult |-> "none", err |-> "none", doc |-> "none"]
NoCrypto == crypto = [autoEncrypter |-> FALSE, wireVersion |-> 0, call |-> NoCryptoCall]
NoLogger == envOptions = NoOptions /\ clientOptions = NoOptions /\ loggerOptions = NoOptions

InitConnFields ==
  /\ NoFraming
  /\ engine = "callback"
  /\ closed = FALSE
  /\ kQueue = EmptyMap
  /\ cb = [c \in Cmds |-> NoCb]
  /\ streamDestroyed = FALSE
  /\ writableEnded = FALSE
  /\ endPending = FALSE
  /\ cleanupError = "none"
  /\ startPending = {}
  /\ closeEmitted = 0
  /\ closeView = NoView
  /\ closeListeners = <<>>
  /\ tickQueue = <<>>
  /\ destroys = [d \in Destroys |-> NoDestroy]
  /\ nextDestroy = 1
  /\ timers = {}
  /\ kDelayedTimeoutId = 0
  /\ nextTimer = 1
  /\ hello = FALSE
  /\ isMonitoringConnection \in BOOLEAN
  /\ monitorCommands \in BOOLEAN
  /\ nextCmd = 1
  /\ controllerAborted = FALSE
  /\ socketClosed = FALSE
  /\ pc = [c \in Cmds |-> "idle"]
  /\ sigCur = {}
  /\ held = [c \in Cmds |-> NoMessage]
  /\ res = [c \in Cmds |-> NoRes]
  /\ noResp = {}
  /\ exhaust = {}
  /\ streamTimeout = 0
  /\ kClusterTime = 0
  /\ clock = 0
  /\ kLastUseTime = 0
  /\ last = NoLast

InitConn == InitConnFields /\ NoAssembly /\ NoLogger /\ NoCrypto /\ kGeneration = 0 /\ socketTimeoutMS = 0

ConnVars == <<closed, kQueue, cb, streamDestroyed, writableEnded, endPending,
              cleanupError, startPending, closeEmitted, closeView, closeListeners,
              tickQueue, destroys, streamTimeout, kClusterTime, kLastUseTime>>
Config == <<engine, isMonitoringConnection, monitorCommands, kGeneration, socketTimeoutMS,
            clock>>
TimerVars == <<timers, kDelayedTimeoutId, nextTimer>>
ModernVars == <<controllerAborted, socketClosed, pc, sigCur, held, res, noResp, exhaust>>
Framing == <<sent, socketData, bufferPool, maxBsonMessageSize, yielded, framing>>
Assembly == <<callArgs, assembled>>
Logger == <<envOptions, clientOptions, loggerOptions>>

\* Connection.command -> write
CommandEnabled == engine = "callback" /\ nextCmd <= MaxCmds
Command(noResponse, throws) ==
  /\ CommandEnabled
  /\ Becomes(Write(Cur, nextCmd, noResponse, throws))
  /\ noResp' = IF noResponse THEN noResp \cup {nextCmd} ELSE noResp
  /\ last' = Did("command", nextCmd)
  /\ nextCmd' = nextCmd + 1
  /\ UNCHANGED <<Config, Logger, crypto, Framing, Assembly, TimerVars, nextDestroy, hello, controllerAborted, socketClosed,
                 pc, sigCur, held, res, exhaust>>

\* the messages the socket can deliver: a message that reaches no operation is
\* read no further than its responseTo
MessagesAt(s) ==
  { m \in Messages :
      MatchedOp(s, m) = 0 =>
        (m.requestId = 0 /\ ~m.moreToCome /\ ~m.parseThrows /\ m.doc = NoDoc) }

\* the message stream's 'message' event; cleanup removes the listener
MessageEnabled(m) ==
  /\ engine = "callback"
  /\ ~closed
  /\ tickQueue = <<>>
  /\ MatchedOp(Cur, m) # 0 => cb[MatchedOp(Cur, m)].calls < MaxCalls

MessageKind(s, m) ==
  IF ~Unmatched(s, m) THEN "message"
  ELSE IF InvalidQueueSize(s, m) THEN "invalidQueueSize"
  ELSE IF OrphanKey(s, m) # 0 THEN "orphan" ELSE "dropped"

OnMessage(m) ==
  /\ MessageEnabled(m)
  /\ timers' = timers \ {kDelayedTimeoutId}
  /\ kDelayedTimeoutId' = 0
  /\ Becomes(OnMessageConn(Cur, m))
  /\ last' = Did(MessageKind(Cur, m), MatchedOp(Cur, m))
  /\ UNCHANGED <<Config, Logger, crypto, Framing, Assembly, ModernVars, nextDestroy, nextTimer, hello, nextCmd>>

\* a handler that only calls cleanup(true, error)
Closing(op, error) ==
  /\ engine = "callback"
  /\ tickQueue = <<>>
  /\ Becomes(Cleanup(Cur, TRUE, error))
  /\ last' = Did(op, 0)
  /\ UNCHANGED <<Config, Logger, crypto, Framing, Assembly, ModernVars, nextDestroy, hello, nextCmd>>

\* the class and the message of the errors the connection creates; "id" and
\* "address" stand for the interpolated this.id and this.address
ErrorClass(error) ==
  CASE error = "network" -> "MongoNetworkError"
    [] error \in {"timeoutBeforeHandshake", "timeoutAfterHandshake"} ->
         "MongoNetworkTimeoutError"
    [] error = "runtime" -> "MongoRuntimeError"
    [] OTHER -> "Error"
ErrorMessage(error) ==
  CASE error = "network" -> <<"connection ", "id", " to ", "address", " closed">>
    [] error \in {"timeoutBeforeHandshake", "timeoutAfterHandshake"} ->
         <<"connection ", "id", " to ", "address", " timed out">>
    [] error = "runtime" -> <<"INVALID_QUEUE_SIZE">>
    [] OTHER -> <<>>

\* mutant: onClose closes with the runtime error
OnCloseConnRuntime(s) == Cleanup(s, TRUE, "runtime")
\* Connection.onClose
OnCloseConn(s) == Cleanup(s, TRUE, "network")

\* the socket's 'close' event; cleanup removes the listener
OnClose ==
  /\ engine = "callback"
  /\ ~closed
  /\ tickQueue = <<>>
  /\ Becomes(OnCloseConn(Cur))
  /\ last' = Did("close", 0)
  /\ UNCHANGED <<Config, Logger, crypto, Framing, Assembly, TimerVars, ModernVars, nextDestroy, hello, nextCmd>>

\* the message stream's 'error' event; cleanup removes the listener
OnError ==
  /\ ~closed
  /\ Closing("error", "parse")
  /\ UNCHANGED TimerVars

\* the socket's 'timeout' event arms the delayed timer
OnTimeout ==
  /\ engine = "callback"
  /\ ~closed
  /\ tickQueue = <<>>
  /\ nextTimer <= MaxTimers
  /\ timers' = timers \cup {nextTimer}
  /\ kDelayedTimeoutId' = nextTimer
  /\ nextTimer' = nextTimer + 1
  /\ last' = Did("timeout", 0)
  /\ UNCHANGED <<Config, Logger, crypto, Framing, Assembly, ConnVars, ModernVars, nextDestroy, hello, nextCmd>>

\* mutant: the error always says the timeout came before the handshake
TimeoutErrorBefore == "timeoutBeforeHandshake"
\* new MongoNetworkTimeoutError(message, { beforeHandshake: this.hello == null })
TimeoutError == IF hello THEN "timeoutAfterHandshake" ELSE "timeoutBeforeHandshake"

\* the delayed timer's callback
DelayedTimeout(t) ==
  /\ t \in timers
  /\ timers' = timers \ {t}
  /\ Closing("delayedTimeout", TimeoutError)
  /\ UNCHANGED <<kDelayedTimeoutId, nextTimer>>

DestroyEnabled == engine = "callback" /\ nextDestroy <= MaxDestroys
Destroy(force) ==
  /\ DestroyEnabled
  /\ Becomes(DestroyConn(Cur, nextDestroy, force))
  /\ last' = Did("destroy", nextDestroy)
  /\ nextDestroy' = nextDestroy + 1
  /\ UNCHANGED <<Config, Logger, crypto, Framing, Assembly, TimerVars, ModernVars, hello, nextCmd>>

\* the callback cleanup gave to kStream.end()
EndCallback ==
  /\ engine = "callback"
  /\ endPending
  /\ tickQueue = <<>>
  /\ Becomes(CompleteCleanup([Cur EXCEPT !.endPending = FALSE,
                                         !.streamDestroyed = TRUE], cleanupError))
  /\ last' = Did("end", 0)
  /\ UNCHANGED <<Config, Logger, crypto, Framing, Assembly, TimerVars, ModernVars, nextDestroy, hello, nextCmd>>

\* the remote end half-closes: the socket ends its writable side
SocketEnd ==
  /\ engine = "callback"
  /\ ~closed
  /\ ~writableEnded
  /\ tickQueue = <<>>
  /\ writableEnded' = TRUE
  /\ last' = Did("socketEnd", 0)
  /\ UNCHANGED <<Config, Logger, crypto, Framing, Assembly, TimerVars, ModernVars, nextDestroy, hello, nextCmd, closed, kQueue,
                 cb, streamDestroyed, endPending, cleanupError, startPending,
                 closeEmitted, closeView, closeListeners, tickQueue, destroys,
                 streamTimeout, kClusterTime, kLastUseTime>>

\* process.nextTick runs the oldest queued destroy callback
NextTick ==
  /\ tickQueue # <<>>
  /\ destroys' = [destroys EXCEPT ![Head(tickQueue)] =
                    [st |-> "done", calls |-> @.calls + 1, closeSeen |-> closeEmitted]]
  /\ tickQueue' = Tail(tickQueue)
  /\ last' = Did("tick", Head(tickQueue))
  /\ UNCHANGED <<Config, Logger, crypto, Framing, Assembly, TimerVars, ModernVars, nextDestroy, hello, nextCmd, closed, kQueue,
                 cb, streamDestroyed, writableEnded, endPending, cleanupError,
                 startPending, closeEmitted, closeView, closeListeners, streamTimeout,
                 kClusterTime, kLastUseTime>>

NextConn ==
  \/ \E noResponse \in BOOLEAN, throws \in BOOLEAN : Command(noResponse, throws)
  \/ \E m \in MessagesAt(Cur) : OnMessage(m)
  \/ OnClose
  \/ OnError
  \/ OnTimeout
  \/ \E t \in TimerIds : DelayedTimeout(t)
  \/ \E force \in BOOLEAN : Destroy(force)
  \/ EndCallback
  \/ SocketEnd
  \/ NextTick

Spec == InitConn /\ [][NextConn]_vars

\* the socket eventually closes unless the connection closed first, the callback
\* given to end() eventually fires, and queued nextTick callbacks run
FairSpec ==
  /\ Spec
  /\ WF_vars(OnClose)
  /\ WF_vars(EndCallback)
  /\ WF_vars(NextTick)

\* ------------------------------------------------- ModernConnection
\* A command call is a chain of async generators (command, sendCommand, sendWire,
\* readMany, readWireProtocolMessages); pc is the await it is suspended at:
\*   "awaitWrite"  await writeCommand(...), the socket write not yet called back
\*   "writeDone"   the write was called back, sendWire not yet resumed
\*   "awaitData"   readWireProtocolMessages awaits the next 'data' event
\*   "decompress"  readMany awaits decompressResponse(message)
\*   "done"        the promise of command() has settled (res says how)
InitModernFields(mc) ==
  /\ engine = "modern"
  /\ closed = FALSE
  /\ kQueue = EmptyMap
  /\ cb = [c \in Cmds |-> NoCb]
  /\ streamDestroyed = FALSE
  /\ writableEnded = FALSE
  /\ endPending = FALSE
  /\ cleanupError = "none"
  /\ startPending = {}
  /\ closeEmitted = 0
  /\ closeView = NoView
  /\ closeListeners = <<>>
  /\ tickQueue = <<>>
  /\ destroys = [d \in Destroys |-> NoDestroy]
  /\ nextDestroy = 1
  /\ timers = {}
  /\ kDelayedTimeoutId = 0
  /\ nextTimer = 1
  /\ hello = FALSE
  /\ isMonitoringConnection = FALSE
  /\ monitorCommands = mc
  /\ nextCmd = 1
  /\ controllerAborted = FALSE
  /\ socketClosed = FALSE
  /\ pc = [c \in Cmds |-> "idle"]
  /\ sigCur = {}
  /\ held = [c \in Cmds |-> NoMessage]
  /\ res = [c \in Cmds |-> NoRes]
  /\ noResp = {}
  /\ exhaust = {}
  /\ streamTimeout = 0
  /\ kClusterTime = 0
  /\ clock = 0
  /\ kLastUseTime = 0
  /\ last = NoLast

InitModernWith(mc) ==
  InitModernFields(mc) /\ NoFraming /\ NoAssembly /\ NoLogger /\ NoCrypto /\ kGeneration = 0 /\ socketTimeoutMS = 0
InitModern == InitModernWith(FALSE)
InitExhaust == \E mc \in BOOLEAN : InitModernWith(mc)

\* the fields a method of ModernConnection reads and writes
ModernCur ==
  [streamDestroyed |-> streamDestroyed, cleanupError |-> cleanupError,
   closeEmitted |-> closeEmitted, closeView |-> closeView,
   closeListeners |-> closeListeners, tickQueue |-> tickQueue, destroys |-> destroys,
   kQueue |-> kQueue, startPending |-> startPending, out |-> NoOut,
   controllerAborted |-> controllerAborted, pc |-> pc, sigCur |-> sigCur, res |-> res,
   cb |-> cb, lastUseTime |-> kLastUseTime]

ModernBecomes(s) ==
  /\ streamDestroyed' = s.streamDestroyed
  /\ cleanupError' = s.cleanupError
  /\ closeEmitted' = s.closeEmitted
  /\ closeView' = s.closeView
  /\ closeListeners' = s.closeListeners
  /\ tickQueue' = s.tickQueue
  /\ destroys' = s.destroys
  /\ controllerAborted' = s.controllerAborted
  /\ pc' = s.pc
  /\ sigCur' = s.sigCur
  /\ res' = s.res
  /\ cb' = s.cb
  /\ kLastUseTime' = s.lastUseTime
  /\ UNCHANGED <<closed, kQueue, writableEnded, endPending, startPending, streamTimeout,
                 kClusterTime>>

\* get closed(): controller.signal.aborted
ModernClosed(s) == s.controllerAborted

\* sendCommand emits a monitoring event for call p when monitorCommands is set
Emit(s, ev, p) ==
  IF monitorCommands /\ ev # "none" THEN [s EXCEPT !.out.events = Append(@, <<ev, p>>)]
  ELSE s
RECURSIVE EmitAll(_, _, _)
EmitAll(s, ev, ps) ==
  IF ps = {} THEN s
  ELSE LET p == CHOOSE x \in ps : \A y \in ps : x <= y
       IN EmitAll(Emit(s, ev, p), ev, ps \ {p})

\* the calls in ps reject, call p with rejected[p]: the catch block of sendCommand
\* emits ev (none when the error is thrown outside sendCommand), command's promise
\* rejects, and exhaustLoop().catch(replyListener) hands the error to the listener
RejectAll(s, ps, rejected, ev) ==
  [EmitAll(s, ev, ps) EXCEPT
     !.pc = [p \in Cmds |-> IF p \in ps THEN "done" ELSE s.pc[p]],
     !.res = [p \in Cmds |-> IF p \in ps THEN rejected[p] ELSE s.res[p]],
     !.sigCur = @ \ ps,
     !.cb = [p \in Cmds |->
               IF p \in ps /\ p \in exhaust
               THEN [s.cb[p] EXCEPT !.calls = @ + 1] ELSE s.cb[p]]]
Reject(s, p, r, ev) == RejectAll(s, {p}, [q \in Cmds |-> r], ev)

\* controller.abort(error): every call suspended on the current controller's
\* signal (an abortable write, or events.on waiting for data) rejects with error
Abort(s, error) ==
  LET woken == {p \in s.sigCur : s.pc[p] \in {"awaitWrite", "awaitData"}}
  IN RejectAll([s EXCEPT !.controllerAborted = TRUE, !.cleanupError = error],
               woken,
               [p \in Cmds |-> IF s.pc[p] = "awaitData" THEN Res("abortError", error)
                                ELSE Res(error, "none")],
               "failed")

ModernCleanup(s, error) ==
  IF ModernClosed(s) THEN s
  ELSE EmitClose(Abort([s EXCEPT !.streamDestroyed = TRUE], error))

\* this.controller = new AbortController()
ReplaceController(s) == [s EXCEPT !.controllerAborted = FALSE, !.sigCur = {}]

\* ModernConnection.destroy(options, callback) for destroy call d
ModernDestroyConn(s, d) ==
  IF ModernClosed(s)
  THEN [s EXCEPT !.tickQueue = Append(@, d), !.destroys[d].st = "ticked"]
  ELSE ModernCleanup([s EXCEPT !.closeListeners = Append(@, d),
                               !.destroys[d].st = "listening"], "network")

\* command -> sendCommand -> sendWire up to `await writeCommand(...)`
ModernCommandConn(s, p, isExhaust) ==
  IF ModernClosed(s)
  THEN LET s1 == Reject(s, p, Res(s.cleanupError, "none"), "none")
       IN IF isExhaust THEN [s1 EXCEPT !.cb[p].calls = @ + 1] ELSE s1
  ELSE [Emit(s, "started", p) EXCEPT !.pc[p] = "awaitWrite", !.sigCur = @ \cup {p}]

\* sendWire resumed after the write: the controller is replaced, then either the
\* noResponse reply is yielded or readMany starts listening for data
AfterWrite(s, p, noResponse) ==
  LET s1 == ReplaceController(s)
  IN IF noResponse
     THEN [Emit(s1, "succeeded", p) EXCEPT !.pc[p] = "done", !.res[p] = Res("ok", "none")]
     ELSE [s1 EXCEPT !.pc[p] = "awaitData", !.sigCur = {p}]

\* what sendWire and sendCommand make of a reply: parse, the first document, the
\* controller replaced, then the error checks of sendCommand
ReplyResult(m) ==
  IF m.parseThrows THEN "bsonParse"
  ELSE IF ~m.doc.present THEN "typeError"
  ELSE IF m.doc.wce THEN "wce"
  ELSE IF m.doc.ok = 0 \/ m.doc.dollarErr \/ m.doc.errmsg THEN "server"
  ELSE "ok"

\* the catch block of sendCommand: the event for an error of this kind
SendCommandCatch(kind) == IF kind = "wce" THEN "succeeded" ELSE "failed"

\* command() returns the first document; exhaustLoop hands every document to the
\* reply listener, goes on reading after a moreToCome reply and throws once the
\* replies end
AfterReply(s, p, m) ==
  LET kind == ReplyResult(m)
      s1 == IF m.parseThrows \/ ~m.doc.present THEN s ELSE ReplaceController(s)
      s2 == [Emit(s1, "succeeded", p) EXCEPT !.cb[p].calls = @ + 1]
  IN IF kind # "ok"
     THEN Reject(s1, p, Res(kind, "none"), SendCommandCatch(kind))
     ELSE IF p \notin exhaust
          THEN [Emit(s1, "succeeded", p) EXCEPT !.pc[p] = "done",
                                               !.res[p] = Res("ok", "none")]
     ELSE IF m.moreToCome THEN [s2 EXCEPT !.pc[p] = "awaitData"]
     ELSE Reject(s2, p, Res("unexpectedServerResponse", "none"), "none")

\* command(ns, command, options), or exhaustCommand(..., replyListener) when
\* isExhaust; exhaust commands are sent expecting replies
ModernCommand(noResponse, isExhaust) ==
  /\ engine = "modern"
  /\ nextCmd <= MaxCmds
  /\ ~(noResponse /\ isExhaust)
  /\ exhaust' = IF isExhaust THEN exhaust \cup {nextCmd} ELSE exhaust
  /\ ModernBecomes(ModernCommandConn(ModernCur, nextCmd, isExhaust))
  /\ noResp' = IF noResponse THEN noResp \cup {nextCmd} ELSE noResp
  /\ nextCmd' = nextCmd + 1
  /\ last' = Did("command", nextCmd)
  /\ UNCHANGED <<Config, Logger, crypto, Framing, Assembly, TimerVars, nextDestroy, hello, socketClosed, held>>

\* a call whose write was called back resumes in a microtask, before any further
\* socket event, timer or I/O callback is dispatched
NoMicrotask == \A p \in Cmds : pc[p] # "writeDone"

\* the socket calls the write back: with an error once the socket is destroyed
WriteDone(p) ==
  /\ engine = "modern"
  /\ pc[p] = "awaitWrite"
  /\ tickQueue = <<>>
  /\ NoMicrotask
  /\ ModernBecomes(IF streamDestroyed
                   THEN Reject(ModernCur, p, Res("writeError", "none"), "failed")
                   ELSE [ModernCur EXCEPT !.pc[p] = "writeDone"])
  /\ last' = Did("writeDone", p)
  /\ UNCHANGED <<Config, Logger, crypto, Framing, Assembly, TimerVars, nextDestroy, hello, nextCmd, socketClosed, held,
                 noResp, exhaust>>

ResumeWrite(p) ==
  /\ engine = "modern"
  /\ pc[p] = "writeDone"
  /\ ModernBecomes(AfterWrite(ModernCur, p, p \in noResp))
  /\ last' = Did("resumeWrite", p)
  /\ UNCHANGED <<Config, Logger, crypto, Framing, Assembly, TimerVars, nextDestroy, hello, nextCmd, socketClosed, held,
                 noResp, exhaust>>

\* the socket's 'data' event, here one whole message: every call listening for
\* data takes it and goes on to decompressResponse
Readers == {p \in Cmds : pc[p] = "awaitData"}
\* no step of a ModernConnection reads responseTo or requestId
ModernMessages == {m \in Messages : m.responseTo = 1 /\ (m.moreToCome => m.requestId = 1)}
DataEvent(m) ==
  /\ engine = "modern"
  /\ ~streamDestroyed
  /\ tickQueue = <<>>
  /\ NoMicrotask
  /\ Readers # {}
  /\ m.moreToCome =>
       /\ Readers \cap exhaust # {}
       /\ \A p \in Readers \cap exhaust : cb[p].calls < MaxCalls
  /\ pc' = [p \in Cmds |-> IF p \in Readers THEN "decompress" ELSE pc[p]]
  /\ held' = [p \in Cmds |-> IF p \in Readers THEN m ELSE held[p]]
  /\ timers' = timers \ {kDelayedTimeoutId}
  /\ kDelayedTimeoutId' = 0
  /\ last' = Did("data", m.responseTo)
  /\ UNCHANGED <<Config, Logger, crypto, Framing, Assembly, ConnVars, nextDestroy, nextTimer, hello, nextCmd,
                 controllerAborted, socketClosed, sigCur, res, noResp, exhaust>>

\* readWireProtocolMessages throws MongoParseError in every call that reads the
\* socket: the error leaves readMany and sendWire, sendCommand emits the failed
\* event and rethrows, and the call rejects
FramingFails(s) ==
  RejectAll(s, {p \in Cmds : s.pc[p] = "awaitData"},
            [p \in Cmds |-> Res("parseError", "none")], "failed")

\* a 'data' event that completes a length prefix which is negative or above
\* maxBsonMessageSize
FramingError ==
  /\ engine = "modern"
  /\ ~streamDestroyed
  /\ tickQueue = <<>>
  /\ NoMicrotask
  /\ Readers # {}
  /\ ModernBecomes(FramingFails(ModernCur))
  /\ timers' = timers \ {kDelayedTimeoutId}
  /\ kDelayedTimeoutId' = 0
  /\ last' = Did("framingError", 0)
  /\ UNCHANGED <<Config, Logger, crypto, Framing, Assembly, nextDestroy, nextTimer, hello, nextCmd, socketClosed, held,
                 noResp, exhaust>>

\* decompressResponse resolves and the reply runs through sendWire and sendCommand
ResumeRead(p) ==
  /\ engine = "modern"
  /\ pc[p] = "decompress"
  /\ ModernBecomes(AfterReply(ModernCur, p, held[p]))
  /\ held' = [held EXCEPT ![p] = NoMessage]
  /\ last' = Did("resumeRead", p)
  /\ UNCHANGED <<Config, Logger, crypto, Framing, Assembly, TimerVars, nextDestroy, hello, nextCmd, socketClosed, noResp,
                 exhaust>>

\* a handler that only calls cleanup(error)
ModernClosing(op, error) ==
  /\ engine = "modern"
  /\ tickQueue = <<>>
  /\ NoMicrotask
  /\ ModernBecomes(ModernCleanup(ModernCur, error))
  /\ last' = Did(op, 0)
  /\ UNCHANGED <<Config, Logger, crypto, Framing, Assembly, nextDestroy, hello, nextCmd, held, noResp, exhaust>>

\* the socket's 'close' event: once, on a socket destroyed by either side
ModernOnClose ==
  /\ ~socketClosed
  /\ socketClosed' = TRUE
  /\ ModernClosing("close", "network")
  /\ UNCHANGED TimerVars

\* the socket's 'error' event: onError runs first, then the 'error' listener of
\* every events.on iterator the abort did not already end
SocketError(s) ==
  LET s1 == ModernCleanup(s, "socketError")
      stale == {p \in Cmds : s1.pc[p] = "awaitData"}
  IN RejectAll(s1, stale, [p \in Cmds |-> Res("socketError", "none")], "failed")

ModernOnError ==
  /\ engine = "modern"
  /\ ~streamDestroyed
  /\ tickQueue = <<>>
  /\ NoMicrotask
  /\ ModernBecomes(SocketError(ModernCur))
  /\ last' = Did("error", 0)
  /\ UNCHANGED <<Config, Logger, crypto, Framing, Assembly, TimerVars, nextDestroy, hello, nextCmd, socketClosed, held,
                 noResp, exhaust>>

ModernOnTimeout ==
  /\ engine = "modern"
  /\ ~streamDestroyed
  /\ tickQueue = <<>>
  /\ NoMicrotask
  /\ nextTimer <= MaxTimers
  /\ timers' = timers \cup {nextTimer}
  /\ kDelayedTimeoutId' = nextTimer
  /\ nextTimer' = nextTimer + 1
  /\ last' = Did("timeout", 0)
  /\ UNCHANGED <<Config, Logger, crypto, Framing, Assembly, ConnVars, ModernVars, nextDestroy, hello, nextCmd>>

ModernDelayedTimeout(t) ==
  /\ t \in timers
  /\ timers' = timers \ {t}
  /\ ModernClosing("delayedTimeout", TimeoutError)
  /\ UNCHANGED <<kDelayedTimeoutId, nextTimer, socketClosed>>

ModernDestroy ==
  /\ engine = "modern"
  /\ nextDestroy <= MaxDestroys
  /\ ModernBecomes(ModernDestroyConn(ModernCur, nextDestroy))
  /\ last' = Did("destroy", nextDestroy)
  /\ nextDestroy' = nextDestroy + 1
  /\ UNCHANGED <<Config, Logger, crypto, Framing, Assembly, TimerVars, hello, nextCmd, socketClosed, held, noResp, exhaust>>

NextModern ==
  \/ \E noResponse \in BOOLEAN : ModernCommand(noResponse, FALSE)
  \/ \E p \in Cmds : WriteDone(p)
  \/ \E p \in Cmds : ResumeWrite(p)
  \/ \E m \in ModernMessages : DataEvent(m)
  \/ FramingError
  \/ \E p \in Cmds : ResumeRead(p)
  \/ ModernOnClose
  \/ ModernOnError
  \/ ModernOnTimeout
  \/ \E t \in TimerIds : ModernDelayedTimeout(t)
  \/ ModernDestroy
  \/ NextTick

SpecModern == InitModern /\ [][NextModern]_vars

\* a ModernConnection on which exhaustCommand is called as well as command, with
\* the socket's data, close and error events
NextExhaust ==
  \/ \E noResponse \in BOOLEAN, isExhaust \in BOOLEAN : ModernCommand(noResponse, isExhaust)
  \/ \E p \in Cmds : WriteDone(p)
  \/ \E p \in Cmds : ResumeWrite(p)
  \/ \E m \in ModernMessages : DataEvent(m)
  \/ FramingError
  \/ \E p \in Cmds : ResumeRead(p)
  \/ ModernOnClose
  \/ ModernOnError

SpecExhaust == InitExhaust /\ [][NextExhaust]_vars

\* a ModernConnection on which commands are pipelined: the server answers a
\* request it was sent and that awaits its reply, in any order, with a document or
\* a server error
PipelinedMessages ==
  { Message(r, 0, FALSE, FALSE, d) :
      r \in Cmds, d \in {Doc(1, FALSE, FALSE, FALSE), Doc(0, FALSE, TRUE, FALSE)} }
NextPipelined ==
  \/ ModernCommand(FALSE, FALSE)
  \/ \E p \in Cmds : WriteDone(p)
  \/ \E p \in Cmds : ResumeWrite(p)
  \/ \E m \in PipelinedMessages : pc[m.responseTo] = "awaitData" /\ DataEvent(m)
  \/ \E p \in Cmds : ResumeRead(p)
  \/ ModernOnClose
SpecPipelined == InitModern /\ [][NextPipelined]_vars
\* the socket calls every write back, resumed calls run on, and a socket that was
\* destroyed emits 'close'
FairPipelined ==
  /\ SpecPipelined
  /\ \A p \in Cmds : WF_vars(WriteDone(p)) /\ WF_vars(ResumeWrite(p)) /\ WF_vars(ResumeRead(p))
  /\ WF_vars(ModernOnClose)

\* a connection of either implementation with command monitoring on or off
InitMonitoring == InitConn \/ InitExhaust
NextMonitoring == NextConn \/ NextExhaust
SpecMonitoring == InitMonitoring /\ [][NextMonitoring]_vars

\* either implementation of the connection
InitBoth == InitConn \/ InitModern
NextBoth == NextConn \/ NextModern
SpecBoth == InitBoth /\ [][NextBoth]_vars

\* ------------------------------------------------- framing
\* a signed 32-bit integer as the four little-endian bytes of a message header,
\* and Buffer.readInt32LE of four bytes
Int32LE(n) == [i \in 1..4 |-> (n \div (256 ^ (i - 1))) % 256]
ReadInt32LE(b) ==
  b[1] + 256 * b[2] + 65536 * b[3] + 16777216 * (IF b[4] >= 128 THEN b[4] - 256 ELSE b[4])

\* the lengths a message header declares, and the bytes of message k declaring
\* length: the header and, for a length the peer can fill, its payload
Lengths == {-1, 0, 4, MaxMessage, MaxMessage + 1, kDefaultMaxBsonMessageSize + 1}
Payload(k, length) ==
  [i \in 1..(IF length > 4 /\ length <= MaxMessage + 1 THEN length - 4 ELSE 0) |-> 100 + k]
Frame(k, length) == Int32LE(length) \o Payload(k, length)
RECURSIVE Stream(_, _)
Stream(ls, k) ==
  IF k > Len(ls) THEN <<>> ELSE Frame(k, ls[k]) \o Stream(ls, k + 1)

\* BufferPool.getInt32: the first four buffered bytes, once there are four
HasInt32(pool) == Len(pool) >= 4
GetInt32(pool) == ReadInt32LE(SubSeq(pool, 1, 4))
\* BufferPool.read(size): the first size bytes, which leave the pool
Read(pool, size) ==
  [bytes |-> SubSeq(pool, 1, size), pool |-> SubSeq(pool, size + 1, Len(pool))]

\* one turn of the loop of readWireProtocolMessages on a 'data' event
ReadWireProtocolMessages(pool, max, chunk) ==
  LET appended == pool \o chunk
      waiting == [pool |-> appended, out |-> <<>>, threw |-> FALSE]
  IN IF ~HasInt32(appended) THEN waiting
     ELSE LET sizeOfMessage == GetInt32(appended)
          IN IF sizeOfMessage < 0 \/ sizeOfMessage > max
             THEN [waiting EXCEPT !.threw = TRUE]
             ELSE IF sizeOfMessage > Len(appended) THEN waiting
             ELSE [pool |-> Read(appended, sizeOfMessage).pool,
                   out |-> <<Read(appended, sizeOfMessage).bytes>>,
                   threw |-> FALSE]

\* a ModernConnection whose peer has written up to MaxFrames messages; the reader
\* took maxBsonMessageSize from the handshake reply or, without one, the default
InitFraming ==
  /\ InitModernFields(FALSE)
  /\ NoAssembly
  /\ NoLogger /\ NoCrypto
  /\ kGeneration = 0 /\ socketTimeoutMS = 0
  /\ \E n \in 1..MaxFrames : \E ls \in [1..n -> Lengths] :
       /\ sent = ls
       /\ socketData = Stream(ls, 1)
  /\ bufferPool = <<>>
  /\ maxBsonMessageSize \in {MaxMessage, kDefaultMaxBsonMessageSize}
  /\ yielded = <<>>
  /\ framing = "reading"

\* the socket's 'data' event with the next n bytes as its chunk
ChunkEvent(n) ==
  /\ engine = "modern"
  /\ framing = "reading"
  /\ n \in 1..Len(socketData)
  /\ LET r == ReadWireProtocolMessages(bufferPool, maxBsonMessageSize,
                                       SubSeq(socketData, 1, n))
     IN /\ bufferPool' = r.pool
        /\ yielded' = yielded \o r.out
        /\ framing' = IF r.threw THEN "failed" ELSE "reading"
  /\ socketData' = SubSeq(socketData, n + 1, Len(socketData))
  /\ timers' = timers \ {kDelayedTimeoutId}
  /\ kDelayedTimeoutId' = 0
  /\ last' = Did("chunk", n)
  /\ UNCHANGED <<Config, Logger, crypto, Assembly, ConnVars, ModernVars, nextDestroy, nextTimer, hello,
                 nextCmd, sent, maxBsonMessageSize>>

NextFraming == \E n \in 1..(MaxFrames * (MaxMessage + 1)) : ChunkEvent(n)
SpecFraming == InitFraming /\ [][NextFraming]_vars

\* ------------------------------------------------- a call of command
\* what the caller can observe of one call: the error returned, the objects, the
\* outgoing command, the monitoring events and whether the message was written
Assembled(r, events, written) ==
  [called |-> TRUE, error |-> r.error, heap |-> r.heap, cmd |-> r.cmd,
   wrapper |-> r.wrapper, events |-> events, written |-> written]

\* Connection.command(ns, command, options, callback)
CallCommand ==
  /\ engine = "callback"
  /\ ~assembled.called
  /\ LET r == PrepareCommand(NewHeap(callArgs.command), callArgs.conn, callArgs.options)
         s == IF r.error # "none" THEN UserCallback(Cur, nextCmd, r.error, NoDoc, FALSE)
              ELSE Write(Cur, nextCmd, FALSE, FALSE)
     IN /\ Becomes(s)
        /\ assembled' = Assembled(r, s.out.events, r.error = "none" /\ Wrote(Cur, FALSE))
  /\ last' = Did("command", nextCmd)
  /\ nextCmd' = nextCmd + 1
  /\ UNCHANGED <<Config, Logger, crypto, Framing, TimerVars, ModernVars, nextDestroy, hello, callArgs>>

\* ModernConnection.command(ns, command, options): prepareCommand throws inside
\* sendCommand before the started event and before sendWire
CallModernCommand ==
  /\ engine = "modern"
  /\ ~assembled.called
  /\ LET r == PrepareCommand(NewHeap(callArgs.command), callArgs.conn, callArgs.options)
         s == IF r.error # "none" /\ ~ModernClosed(ModernCur)
              THEN Reject(ModernCur, nextCmd, Res(r.error, "none"), "none")
              ELSE ModernCommandConn(ModernCur, nextCmd, FALSE)
     IN /\ ModernBecomes(s)
        /\ assembled' = Assembled(r, s.out.events, r.error = "none")
  /\ last' = Did("command", nextCmd)
  /\ nextCmd' = nextCmd + 1
  /\ UNCHANGED <<Config, Logger, crypto, Framing, TimerVars, nextDestroy, hello, socketClosed, held,
                 noResp, exhaust, callArgs>>

\* an open connection of either implementation and one call of command on it
InitAssemble ==
  /\ InitConnFields \/ \E mc \in BOOLEAN : (InitModernFields(mc) /\ NoFraming)
  /\ callArgs \in CallArgs
  /\ assembled = NoAssembled
  /\ NoLogger /\ NoCrypto
  /\ kGeneration = 0 /\ socketTimeoutMS = 0
NextAssemble == CallCommand \/ CallModernCommand
SpecAssemble == InitAssemble /\ [][NextAssemble]_vars

\* ------------------------------------------------- properties
\* C1: in Connection, when CLOSE is emitted every operation that was in the pending
\* map when cleanup started has had its handler invoked with the closing error,
\* and the pending map is empty.
C1_CloseAfterAllFailed ==
  closeEmitted > 0 => (closeView.pending = {} /\ closeView.unfailed = {})

\* C2: every command dispatched on a Connection with a reply expected eventually
\* has its handler invoked, given that the socket eventually closes, the end()
\* callback eventually fires and queued callbacks run.
C2_EveryCommandResolved ==
  \A c \in Cmds : (c \in Range(kQueue)) ~> (cb[c].calls > 0)

\* C3 as stated: a reply with responseTo = R and no moreToCome that arrives while R
\* is pending invokes that operation's handler exactly once and removes it from the
\* pending map, and a second reply with the same responseTo invokes no handler.
C3_SecondReplyDropped ==
  \A m \in MessagesAt(Cur) :
    (MessageEnabled(m) /\ ~Unmatched(Cur, m) /\ ~m.moreToCome) =>
      LET op == kQueue[m.responseTo]
          s1 == OnMessageConn(Cur, m)
      IN /\ s1.out.called = {op}
         /\ s1.cb[op].calls = cb[op].calls + 1
         /\ m.responseTo \notin DOMAIN s1.kQueue
         /\ \A m2 \in Messages :
              m2.responseTo = m.responseTo =>
                OnMessageConn([s1 EXCEPT !.out = NoOut], m2).out.called = {}

\* C3 amended: the first reply completes the operation exactly once and removes
\* it from the pending map; on a connection that is not a monitoring connection a
\* second reply with the same responseTo invokes no handler, as does every reply
\* whose responseTo is not a pending key.
C3_ReplyCompletesOnce ==
  /\ \A m \in MessagesAt(Cur) :
       (MessageEnabled(m) /\ ~Unmatched(Cur, m) /\ ~m.moreToCome) =>
         LET op == kQueue[m.responseTo]
             s1 == OnMessageConn(Cur, m)
         IN /\ s1.out.called = {op}
            /\ s1.cb[op].calls = cb[op].calls + 1
            /\ m.responseTo \notin DOMAIN s1.kQueue
            /\ ~isMonitoringConnection =>
                 \A m2 \in Messages :
                   m2.responseTo = m.responseTo =>
                     OnMessageConn([s1 EXCEPT !.out = NoOut], m2).out.called = {}
  /\ \A m \in Messages :
       (MessageEnabled(m) /\ ~isMonitoringConnection /\ Unmatched(Cur, m)) =>
         /\ OnMessageConn(Cur, m).out.called = {}
         /\ OnMessageConn(Cur, m).cb = cb

\* a reply was dropped on a connection that is not a monitoring connection, after
\* the one command had been completed by its reply
C3_Witness ==
  /\ last.op = "dropped"
  /\ ~isMonitoringConnection
  /\ ~closed
  /\ cb[1].calls = 1
  /\ 1 \notin Range(kQueue)
  /\ nextCmd = 2

\* C4: once a Connection is closed every further command call fails immediately:
\* its callback receives an error, nothing is written to the socket and no entry
\* is added to the pending map.
C4_ClosedCommandFails ==
  (CommandEnabled /\ closed) =>
    \A noResponse \in BOOLEAN, throws \in BOOLEAN :
      LET s == Write(Cur, nextCmd, noResponse, throws)
      IN /\ s.out.called = {nextCmd}
         /\ s.out.err # "none"
         /\ ~Wrote(Cur, throws)
         /\ s.kQueue = kQueue

\* C5: the caller's callback receives either a reply document with no error or an
\* error with no reply document, never both and never neither, for success
\* replies, server-error replies, replies carrying writeConcernError and cleanup,
\* and a command that ends with its reply is called back exactly once.
C5_EitherDocOrError ==
  /\ \A m \in MessagesAt(Cur) :
       (MessageEnabled(m) /\ MatchedOp(Cur, m) # 0 /\ ~m.parseThrows /\ m.doc.present) =>
         LET s == OnMessageConn(Cur, m)
         IN /\ s.out.called = {MatchedOp(Cur, m)}
            /\ (s.out.err = "none") <=> s.out.doc
  /\ (engine = "callback" /\ ~closed /\ tickQueue = <<>>) =>
       LET s == Cleanup(Cur, TRUE, "network")
       IN s.out.called # {} => (s.out.err # "none" /\ ~s.out.doc)

\* C6: calling destroy twice on the same connection, each call with a callback,
\* invokes each callback exactly once: at every moment a destroy call that was
\* made has its callback either waiting for the CLOSE of a closure in progress,
\* or queued once for the next tick, or invoked once, and never more than once.
C6_DestroyTwice ==
  \A d \in Destroys :
    LET queued == {i \in DOMAIN tickQueue : tickQueue[i] = d}
        listening == {i \in DOMAIN closeListeners : closeListeners[i] = d}
    IN /\ destroys[d].calls <= 1
       /\ d >= nextDestroy =>
            (destroys[d] = NoDestroy /\ queued = {} /\ listening = {})
       /\ d < nextDestroy =>
            \/ /\ destroys[d].st = "listening"
               /\ engine = "callback" /\ endPending
               /\ Cardinality(listening) = 1 /\ queued = {}
               /\ destroys[d].calls = 0
            \/ /\ destroys[d].st = "ticked"
               /\ Cardinality(queued) = 1 /\ listening = {}
               /\ destroys[d].calls = 0
            \/ /\ destroys[d].st = "done"
               /\ queued = {} /\ listening = {}
               /\ destroys[d].calls = 1

\* destroy was called twice and both callbacks have been invoked, each after the
\* one CLOSE of the connection
C6_Witness ==
  /\ \A d \in Destroys : destroys[d].st = "done" /\ destroys[d].calls = 1
  /\ destroys[1].closeSeen = 1
  /\ destroys[2].closeSeen = 1
  /\ last = Did("tick", 2)

\* C7: on a Connection cleanup takes effect at most once: closed never reverts,
\* CLOSE is emitted at most once, and no operation's handler is invoked with a
\* closing error more than once.
C7_CleanupOnce ==
  /\ [](closeEmitted <= 1 /\ \A c \in Cmds : cb[c].closeErrs <= 1)
  /\ [][closed => closed']_vars

\* a second cause of closing (the delayed timeout) arrived on a connection that had
\* closed and failed its pending operation
C7_Witness ==
  /\ last.op = "delayedTimeout"
  /\ closed
  /\ closeEmitted = 1
  /\ \E c \in Cmds : cb[c].closeErrs = 1
  /\ nextDestroy > 1

\* C8: ModernConnection.closed never reads false after it has read true.
C8_ClosedMonotonic ==
  [][ModernClosed(ModernCur) => ModernClosed(ModernCur)']_vars

\* C9: on a monitoring Connection with exactly one pending operation, a reply
\* whose responseTo matches no pending key completes that operation: its handler
\* is invoked once for the reply and the entry leaves its key, the map keeping
\* the operation only under the request id of a moreToCome reply.
C9_OrphanRecovery ==
  \A m \in MessagesAt(Cur) :
    (MessageEnabled(m) /\ isMonitoringConnection /\ Unmatched(Cur, m)
       /\ Cardinality(DOMAIN kQueue) = 1) =>
      LET k == CHOOSE x \in DOMAIN kQueue : TRUE
          op == kQueue[k]
          s == OnMessageConn(Cur, m)
      IN /\ s.out.called = {op}
         /\ s.cb[op].calls = cb[op].calls + 1
         /\ s.out = Deliver([Cur EXCEPT !.kQueue = s.kQueue], op, m).out
         /\ s.kQueue = IF m.moreToCome THEN Put(EmptyMap, m.requestId, op) ELSE EmptyMap
         /\ ~s.closed

\* an unmatched reply completed the only pending operation of a monitoring
\* connection
C9_Witness ==
  /\ last.op = "orphan"
  /\ isMonitoringConnection
  /\ cb[last.id].calls = 1
  /\ kQueue = EmptyMap
  /\ ~closed

\* C10: on a monitoring Connection with two or more pending operations, a reply
\* whose responseTo matches no pending key closes the connection with the runtime
\* error, every pending operation's handler receives that error exactly once, and
\* the reply is delivered to no handler.
C10_InvalidQueueSize ==
  \A m \in MessagesAt(Cur) :
    (MessageEnabled(m) /\ isMonitoringConnection /\ Unmatched(Cur, m)
       /\ Cardinality(DOMAIN kQueue) >= 2) =>
      LET s == OnMessageConn(Cur, m)
      IN /\ s.closed
         /\ s.closeEmitted = closeEmitted + 1
         /\ s.kQueue = EmptyMap
         /\ s.out.called = Range(kQueue)
         /\ s.out.err = "runtime"
         /\ ~s.out.doc
         /\ \A c \in Cmds :
              IF c \in Range(kQueue)
              THEN s.cb[c] = [calls |-> cb[c].calls + 1, closeErrs |-> cb[c].closeErrs + 1]
              ELSE s.cb[c] = cb[c]

\* an unmatched reply closed a monitoring connection that had two pending
\* operations, and both were failed
C10_Witness ==
  /\ last.op = "invalidQueueSize"
  /\ isMonitoringConnection
  /\ closed
  /\ closeEmitted = 1
  /\ \A c \in Cmds : cb[c].closeErrs = 1

\* C11: a command dispatched on a Connection with noResponse = true whose write
\* succeeds has its handler invoked synchronously with no error and no document,
\* write adds no entry to the pending map, and the command is never in the map.
C11_NoResponse ==
  /\ CommandEnabled =>
       LET c == nextCmd
           s == Write(Cur, c, TRUE, FALSE)
       IN /\ s.out.called = {c}
          /\ s.out.err = "none"
          /\ ~s.out.doc
          /\ s.cb[c] = [calls |-> 1, closeErrs |-> 0]
          /\ s.kQueue = kQueue
          /\ c \notin Range(s.kQueue)
  /\ engine = "callback" => \A c \in noResp : c \notin Range(kQueue) /\ cb[c].calls = 1

\* a noResponse command has just been dispatched on an open connection while
\* another command was pending
C11_Witness ==
  /\ engine = "callback"
  /\ last.op = "command"
  /\ last.id \in noResp
  /\ cb[last.id].calls = 1
  /\ ~closed
  /\ Range(kQueue) = Cmds \ {last.id}

\* C12: if writing the message throws during dispatch on a Connection, the error is
\* delivered to the caller's handler and no entry for that request remains in the
\* pending map, for response-expecting and for noResponse commands alike.
C12_WriteThrowFails ==
  CommandEnabled =>
    \A noResponse \in BOOLEAN :
      LET c == nextCmd
          s == Write(Cur, c, noResponse, TRUE)
      IN /\ s.out.called = {c}
         /\ s.out.err = "writeThrow"
         /\ ~s.out.doc
         /\ c \notin DOMAIN s.kQueue
         /\ c \notin Range(s.kQueue)

\* C13: if the socket closes while commands are pending on a Connection, each
\* pending command's handler receives a network error whose message contains the
\* connection id and the remote address.
C13_CloseNetworkError ==
  (engine = "callback" /\ ~closed /\ tickQueue = <<>>) =>
    LET s == OnCloseConn(Cur)
        msg == ErrorMessage(s.out.err)
    IN \A c \in Range(kQueue) :
         /\ c \in s.out.called
         /\ s.cb[c] = [calls |-> cb[c].calls + 1, closeErrs |-> cb[c].closeErrs + 1]
         /\ ~s.out.doc
         /\ ErrorClass(s.out.err) = "MongoNetworkError"
         /\ \E i \in DOMAIN msg : msg[i] = "id"
         /\ \E i \in DOMAIN msg : msg[i] = "address"

\* the socket closed with both commands pending and unanswered, and both handlers
\* received the closing error
C13_Witness ==
  /\ last.op = "close"
  /\ closed
  /\ kQueue = EmptyMap
  /\ \A c \in Cmds : cb[c] = [calls |-> 1, closeErrs |-> 1]

\* the i-th reply document of an exhaust cursor, and a sequence of replies to the
\* operation pending under key r: reply i answers the request id of reply i - 1,
\* carries request id qs[i] and has moreToCome set unless it is the last
ExhaustDoc(i) ==
  [present |-> TRUE, ok |-> 1, dollarErr |-> FALSE, errmsg |-> FALSE, wce |-> FALSE,
   clusterTime |-> 0, cursor |-> i]
ExhaustReply(r, qs, i) ==
  Message(IF i = 1 THEN r ELSE qs[i - 1], qs[i], i < Len(qs), FALSE, ExhaustDoc(i))
\* the connection after replies i..Len(qs) arrived one after the other, and whether
\* each of them reached handler op with its own document and no error
RECURSIVE FeedReplies(_, _, _, _, _)
FeedReplies(s, op, r, qs, i) ==
  IF i > Len(qs) THEN [conn |-> s, ok |-> TRUE]
  ELSE LET s1 == OnMessageConn([s EXCEPT !.out = NoOut], ExhaustReply(r, qs, i))
           rest == FeedReplies(s1, op, r, qs, i + 1)
       IN [conn |-> rest.conn,
           ok |-> /\ s1.out.called = {op}
                  /\ s1.out.err = "none"
                  /\ s1.out.reply = ExhaustDoc(i)
                  /\ s1.cb[op].calls = s.cb[op].calls + 1
                  /\ rest.ok]
ReplyIdSeqs == UNION { [1..n -> Ids] : n \in 1..MaxReplies }

\* C14: Connection.exhaustCommand: for n >= 1 replies of which all but the last have
\* moreToCome set, the reply listener is invoked exactly n times, in arrival order,
\* each time with that reply's document and no error, and afterwards the pending
\* map no longer holds the operation.
C14_ExhaustReplies ==
  (engine = "callback" /\ ~closed /\ tickQueue = <<>>) =>
    \A r \in DOMAIN kQueue : \A qs \in ReplyIdSeqs :
      LET op == kQueue[r]
          fed == FeedReplies(Cur, op, r, qs, 1)
      IN /\ fed.ok
         /\ fed.conn.cb[op].calls = cb[op].calls + Len(qs)
         /\ op \notin Range(fed.conn.kQueue)
         /\ ~fed.conn.closed

\* the final reply of an exhaust operation has just been delivered, after a
\* moreToCome reply to the same operation
C14_Witness ==
  /\ last.op = "message"
  /\ cb[last.id] = [calls |-> 2, closeErrs |-> 0]
  /\ last.id \notin Range(kQueue)
  /\ ~closed

\* C15: ModernConnection.exhaustCommand: a reply with moreToCome followed by a
\* final reply without it invokes the reply listener exactly twice, in order, and
\* the loop then terminates without delivering any error to the listener.
C15_ModernExhaustTwice ==
  \A p \in exhaust :
    (pc[p] = "decompress" /\ cb[p].calls = 1 /\ ~held[p].moreToCome
       /\ ReplyResult(held[p]) = "ok") =>
      LET s == AfterReply(ModernCur, p, held[p])
      IN /\ s.cb[p].calls = 2
         /\ s.pc[p] = "done"
         /\ s.res[p].kind = "ok"

\* the monitoring events of one handler run
Resolution == {"succeeded", "failed"}
EventsOf(evs, c, kinds) ==
  Cardinality({i \in DOMAIN evs : evs[i][2] = c /\ evs[i][1] \in kinds})
\* a run of the callback engine emits one succeeded or failed event for each
\* invocation of an operation's handler, and no event when monitoring is off
OneEventPerCall(s) ==
  IF monitorCommands
  THEN \A c \in Cmds :
         EventsOf(s.out.events, c, Resolution) = s.cb[c].calls - cb[c].calls
  ELSE s.out.events = <<>>
\* a step of the modern engine emits one succeeded or failed event for each
\* dispatched call it settles or hands a reply
ModernOneEventPerCall(s) ==
  IF monitorCommands
  THEN \A p \in Cmds :
         EventsOf(s.out.events, p, Resolution) =
           IF pc[p] \notin {"idle", "done"}
                /\ (s.pc[p] = "done" \/ s.cb[p].calls > cb[p].calls)
           THEN 1 ELSE 0
  ELSE s.out.events = <<>>
StartedFirst(s, c) ==
  monitorCommands =>
    /\ Len(s.out.events) >= 1
    /\ s.out.events[1] = <<"started", c>>
NoStarted(s) == \A c \in Cmds : EventsOf(s.out.events, c, {"started"}) = 0

HasWriteConcernError(m) == ~m.parseThrows /\ m.doc.present /\ m.doc.wce
\* what a writeConcernError reply does to the operation it answers on a Connection
\* and to the call that reads it on a ModernConnection: the error is the
\* write-concern error and the one event is succeeded, for every such document or,
\* with okOnly, for those with ok = 1 and no $err
OkIsOne(doc) == doc.ok = 1 /\ ~doc.dollarErr
WriteConcernErrorReply(okOnly) ==
  /\ \A m \in MessagesAt(Cur) :
       (MessageEnabled(m) /\ MatchedOp(Cur, m) # 0 /\ HasWriteConcernError(m)) =>
         LET op == MatchedOp(Cur, m)
             s == OnMessageConn(Cur, m)
         IN /\ s.out.called = {op}
            /\ s.out.err = "wce"
            /\ (monitorCommands /\ (okOnly => OkIsOne(m.doc))) =>
                 s.out.events = << <<"succeeded", op>> >>
  /\ \A p \in Cmds :
       (engine = "modern" /\ pc[p] = "decompress" /\ HasWriteConcernError(held[p])) =>
         LET s == AfterReply(ModernCur, p, held[p])
         IN /\ s.pc[p] = "done"
            /\ s.res[p].kind = "wce"
            /\ (monitorCommands /\ (okOnly => OkIsOne(held[p].doc))) =>
                 s.out.events = << <<"succeeded", p>> >>

HasReplyError(m) ==
  /\ ~m.parseThrows
  /\ m.doc.present
  /\ (m.doc.wce \/ m.doc.ok = 0 \/ m.doc.dollarErr \/ m.doc.errmsg)
\* C18: on a Connection, a reply that yields a server error or a write-concern
\* error affects only the operation it answers: the connection stays open, CLOSE
\* is not emitted, and every other pending operation stays in the pending map
\* with its handler not invoked.
C18_ReplyErrorScoped ==
  \A m \in MessagesAt(Cur) :
    (MessageEnabled(m) /\ MatchedOp(Cur, m) # 0 /\ HasReplyError(m)) =>
      LET op == MatchedOp(Cur, m)
          s == OnMessageConn(Cur, m)
      IN /\ s.out.called = {op}
         /\ s.out.err \in {"wce", "server"}
         /\ ~s.closed
         /\ s.closeEmitted = 0
         /\ \A c \in Range(kQueue) \ {op} :
              c \in Range(s.kQueue) /\ s.cb[c] = cb[c]

\* C19: when framing fails on a ModernConnection, the connection is terminated:
\* closed becomes true, CLOSE is emitted, and every command awaiting a reply on
\* the connection receives the error.
C19_FramingFailureCloses ==
  (engine = "modern" /\ ~streamDestroyed /\ tickQueue = <<>> /\ NoMicrotask
     /\ Readers # {}) =>
    LET s == FramingFails(ModernCur)
    IN /\ \A p \in Readers : s.pc[p] = "done" /\ s.res[p].kind = "parseError"
       /\ ModernClosed(s)
       /\ s.closeEmitted = closeEmitted + 1

\* a declared length readWireProtocolMessages rejects
InvalidLength(length) == length < 0 \/ length > maxBsonMessageSize

\* C20: in readWireProtocolMessages a declared length below 0 or above the
\* maximum fails the framing as soon as its four length bytes are buffered: the
\* reader is never left waiting with such a length at the head of its buffer,
\* and when it has failed the rejected frame is still in the buffer, not yielded.
C20_InvalidLengthFails ==
  /\ (framing = "reading" /\ HasInt32(bufferPool)) => ~InvalidLength(GetInt32(bufferPool))
  /\ framing = "failed" =>
       /\ HasInt32(bufferPool)
       /\ InvalidLength(GetInt32(bufferPool))

\* the first k messages the peer wrote each declare a length the reader accepts
\* and that covers its own four length bytes
Framed(k) == \A j \in 1..k : sent[j] >= 4 /\ ~InvalidLength(sent[j])
\* the offset in the peer's bytes at which message k ends, and the number of bytes
\* the socket has delivered
RECURSIVE EndOf(_)
EndOf(k) == IF k = 0 THEN 0 ELSE EndOf(k - 1) + Len(Frame(k, sent[k]))
Delivered == Len(Stream(sent, 1)) - Len(socketData)

\* C21: in readWireProtocolMessages a message of declared length L, 0 <= L <= max,
\* is yielded exactly once, as those L bytes, upon the chunk that completes them,
\* however its bytes are split into chunks: once L bytes of message k have been
\* delivered, yielded[k] is that message, and before that it has not been yielded.
C21_OneMessagePerFrame ==
  \A k \in 1..Len(sent) :
    Framed(k) =>
      /\ Delivered >= EndOf(k) => (Len(yielded) >= k /\ yielded[k] = Frame(k, sent[k]))
      /\ Delivered < EndOf(k) => Len(yielded) < k

\* C22: on a ModernConnection with two commands awaiting replies, a reply is
\* delivered only to the command whose request id equals the reply's responseTo
\* (command p is sent under request id p), in whatever order the replies arrive.
C22_RepliesMatchedById ==
  \A p \in Cmds : pc[p] = "decompress" => held[p].responseTo = p

\* the error a call rejected with is the error cleanup was called with, or the
\* AbortError that carries it as its cause
IsClosingError(r) ==
  \/ r.kind = cleanupError
  \/ r.kind = "abortError" /\ r.cause = cleanupError

\* C23: on a ModernConnection, a command that is suspended in a write or in a
\* read when cleanup has run eventually rejects with the closing error, also when
\* another command's write replaced the AbortController it waits on.
C23_SuspendedCallsReject ==
  \A p \in Cmds :
    (streamDestroyed /\ pc[p] \in {"awaitWrite", "awaitData"})
      ~> (pc[p] = "done" /\ IsClosingError(res[p]))

\* C24: when command is called with an explicit session on a connection without
\* session support, the caller receives a compatibility error and nothing else
\* happens: no message is written, the pending map gets no entry and no
\* command-started event is emitted.
C24_ExplicitSessionUnsupported ==
  (assembled.called /\ callArgs.options.session = "explicit"
     /\ ~callArgs.conn.hasSessionSupport) =>
    /\ assembled.error = "compatibility"
    /\ ~assembled.written
    /\ assembled.events = <<>>
    /\ kQueue = EmptyMap
    /\ ~closed /\ closeEmitted = 0
    /\ engine = "callback" => cb[1].calls = 1
    /\ engine = "modern" => (pc[1] = "done" /\ res[1] = Res("compatibility", "none"))

\* command was called with an explicit session on a monitored connection that
\* does not support sessions
C24_Witness ==
  /\ assembled.called
  /\ monitorCommands
  /\ callArgs.options.session = "explicit"
  /\ ~callArgs.conn.hasSessionSupport
  /\ assembled.error = "compatibility"

\* the command document a call sent out
Outgoing == assembled.heap[assembled.cmd]
\* the greater of the cluster times known to the connection and to the session
\* supplied (a session counts on a connection with session support), Absent when
\* neither is known
GreaterClusterTime ==
  LET ofConn == callArgs.conn.clusterTime
      ofSession == IF callArgs.options.session = "none" \/ ~callArgs.conn.hasSessionSupport
                   THEN Absent
                   ELSE callArgs.options.sessionClusterTime
  IN IF ofSession > ofConn THEN ofSession ELSE ofConn

\* C25: the $clusterTime attached to an outgoing command is the greater of the
\* connection's and the supplied session's known cluster time, and one is
\* attached whenever at least one of the two is known.
C25_GossipGreater ==
  (assembled.called /\ assembled.error = "none") =>
    Outgoing["$clusterTime"] =
      IF GreaterClusterTime # Absent THEN GreaterClusterTime
      ELSE callArgs.command["$clusterTime"]

\* C26: assembling a command never mutates the caller's command document: after
\* command / prepareCommand returns, with success or with an error, the caller's
\* object has the top-level fields and values it had before, also when API
\* version fields, session fields, $clusterTime or the $query wrapper were applied.
C26_CallerCommandUntouched ==
  assembled.called => assembled.heap[1] = callArgs.command

\* a call that stamped the API version, merged the session id, attached a
\* $clusterTime and wrapped the command in $query, on a caller's document that
\* had its own apiVersion and $clusterTime
C26_Witness ==
  /\ assembled.called
  /\ assembled.error = "none"
  /\ assembled.wrapper # 0
  /\ callArgs.command["apiVersion"] = CallerValue
  /\ Outgoing["apiVersion"] = 1
  /\ Outgoing["lsid"] # Absent
  /\ Outgoing["$clusterTime"] \in 1..MaxClusterTime
  /\ assembled.heap[assembled.wrapper]["$query"] = assembled.cmd

\* ------------------------------------------------------------- generation
Generations == 0..MaxGeneration
\* get generation(): this[kGeneration] || 0
Generation == IF kGeneration # 0 THEN kGeneration ELSE 0
\* set generation(generation)
SetGeneration(generation) ==
  /\ kGeneration' = generation
  /\ last' = Did("setGeneration", 0)
  /\ UNCHANGED <<engine, isMonitoringConnection, monitorCommands, socketTimeoutMS, clock, Logger,
                 crypto, Framing,
                 Assembly, ConnVars, TimerVars, ModernVars, nextDestroy, hello, nextCmd>>
\* the constructor stores options.generation
InitGeneration ==
  /\ InitConnFields \/ (InitModernFields(FALSE) /\ NoFraming)
  /\ NoAssembly
  /\ NoLogger /\ NoCrypto
  /\ kGeneration \in Generations
  /\ socketTimeoutMS = 0
NextGeneration ==
  \/ NextConn
  \/ NextPipelined
  \/ \E generation \in Generations : SetGeneration(generation)
SpecGeneration == InitGeneration /\ [][NextGeneration]_vars

\* C28: a connection's generation is immutable after construction: no operation
\* of Connection or ModernConnection changes the value the generation accessor
\* returns.
C28_GenerationImmutable == [][Generation' = Generation]_vars

\* ------------------------------------------------------------- MongoLogger
\* options for one component and for default, the others unset
LoggerInputs ==
  { [c \in Components |-> IF c = k THEN v ELSE IF c = "default" THEN d ELSE Unset] :
      k \in Components, v \in OptionValues, d \in OptionValues }
InitLogger ==
  /\ InitConnFields
  /\ NoAssembly
  /\ kGeneration = 0 /\ socketTimeoutMS = 0
  /\ NoCrypto
  /\ envOptions \in LoggerInputs
  /\ clientOptions \in LoggerInputs
  /\ loggerOptions = NoOptions
\* MongoLogger.resolveOptions(envOptions, clientOptions)
CallResolveOptions ==
  /\ last = NoLast
  /\ loggerOptions' = ResolveOptions(envOptions, clientOptions)
  /\ last' = Did("resolveOptions", 0)
  /\ UNCHANGED <<Config, crypto, Framing, Assembly, ConnVars, TimerVars, ModernVars, nextDestroy,
                 hello, nextCmd, envOptions, clientOptions>>
NextLogger == CallResolveOptions
SpecLogger == InitLogger /\ [][NextLogger]_vars

\* C29: MongoLogger.resolveOptions: when a component's severity is set both by
\* its environment variable and in the MongoClient options, both valid, the
\* resolved severity is the environment variable's.
C29_EnvironmentPreferred ==
  last.op = "resolveOptions" =>
    \A c \in Components :
      (ParseSeverityFromString(envOptions[c]) # Unset
         /\ ParseSeverityFromString(clientOptions[c]) # Unset)
        => loggerOptions[c] = ParseSeverityFromString(envOptions[c])

\* one command on a fresh connection, answered by reply m unless noResponse is
\* set: what the caller of Connection.command is called back with and the events
\* emitted, and the same for the promise of ModernConnection.command
EventNames(evs) == [i \in DOMAIN evs |-> evs[i][1]]
CallbackOutcome(noResponse, m) ==
  LET s1 == Write(Cur, 1, noResponse, FALSE)
      s2 == IF noResponse THEN s1 ELSE OnMessageConn(s1, m)
  IN [kind |-> IF s2.out.err = "none" THEN "ok" ELSE s2.out.err,
      doc |-> s2.out.reply,
      events |-> EventNames(s2.out.events)]
ModernOutcome(noResponse, m) ==
  LET s1 == ModernCommandConn(ModernCur, 1, FALSE)
      s2 == AfterWrite(s1, 1, noResponse)
      s3 == IF noResponse THEN s2 ELSE AfterReply(s2, 1, m)
      \* sendWire yields { ok: 1 } for noResponse and the reply's document otherwise
      document == IF noResponse THEN Doc(1, FALSE, FALSE, FALSE) ELSE m.doc
  IN [kind |-> s3.res[1].kind,
      doc |-> IF s3.res[1].kind = "ok" THEN document ELSE NoDoc,
      events |-> EventNames(s3.out.events)]
\* the replies to request 1 that carry a document
ReplyShapes == { Message(1, 0, FALSE, FALSE, d) : d \in Docs }

\* C27: for a single command with monitoring on and no other command in flight,
\* Connection.command and ModernConnection.command deliver the same outcome kind
\* and payload and emit the same sequence of events, for every reply shape and
\* for noResponse.
C27_EnginesAgree ==
  (monitorCommands /\ nextCmd = 1 /\ last = NoLast) =>
    /\ \A m \in ReplyShapes : CallbackOutcome(FALSE, m) = ModernOutcome(FALSE, m)
    /\ CallbackOutcome(TRUE, NoMessage) = ModernOutcome(TRUE, NoMessage)

\* C30: on a non-monitoring Connection a reply whose responseTo matches no
\* pending operation is dropped: no handler is invoked, the pending map and the
\* closed flag are unchanged and no CLOSE event is emitted.
C30_UnmatchedReplyDropped ==
  [][(last'.op = "dropped" /\ ~isMonitoringConnection)
       => UNCHANGED <<cb, kQueue, closed, closeEmitted>>]_vars
\* an unmatched reply was dropped while an operation was pending
C30_Witness ==
  last.op = "dropped" /\ ~isMonitoringConnection /\ kQueue # EmptyMap /\ ~closed

\* ------------------------------------------------------------- socket timeout
\* a Connection constructed with any socketTimeoutMS
InitTimeout ==
  /\ InitConnFields
  /\ NoAssembly
  /\ NoLogger /\ NoCrypto
  /\ kGeneration = 0
  /\ socketTimeoutMS \in 0..MaxSocketTimeout
SpecTimeout == InitTimeout /\ [][NextConn]_vars

\* the matched replies with moreToCome that onMessage can receive now
ExhaustReplies ==
  { m \in MessagesAt(Cur) : MessageEnabled(m) /\ ~Unmatched(Cur, m) /\ m.moreToCome }

\* C31: when a matched reply has moreToCome set, after onMessage the operation
\* has left its previous key and is held under the reply's own request id, the
\* pending map has the size it had, the socket timeout has the value it had
\* before the reply was processed, and a reply to that request id reaches the
\* same operation.
C31_ExhaustRequeued ==
  \A m \in ExhaustReplies :
    LET op == Cur.kQueue[m.responseTo]
        s == OnMessageConn(Cur, m)
    IN /\ m.requestId # m.responseTo => m.responseTo \notin DOMAIN s.kQueue
       /\ m.requestId \in DOMAIN s.kQueue /\ s.kQueue[m.requestId] = op
       /\ Cardinality(DOMAIN s.kQueue) = Cardinality(DOMAIN Cur.kQueue)
       /\ s.timeout = Cur.timeout
       /\ \A n \in Messages : n.responseTo = m.requestId => MatchedOp(s, n) = op

\* C32: no operation leaves a Connection's pending map without its handler
\* being invoked in the same step; in particular re-inserting an exhaust
\* operation under the reply's request id never overwrites another pending
\* operation.
C32_RemovedOnlyWithHandler ==
  [][\A c \in Cmds :
       (c \in Range(kQueue) /\ c \notin Range(kQueue')) => cb'[c].calls > cb[c].calls]_vars

\* ------------------------------------------------------------- handshake
\* set hello(response): the handshake reply is recorded
SetHello ==
  /\ engine = "callback"
  /\ ~hello
  /\ tickQueue = <<>>
  /\ hello' = TRUE
  /\ last' = Did("hello", 0)
  /\ UNCHANGED <<Config, Logger, crypto, Framing, Assembly, ConnVars, TimerVars, ModernVars,
                 nextDestroy, nextCmd>>
NextHandshake == NextConn \/ SetHello
SpecHandshake == InitConn /\ [][NextHandshake]_vars

\* the delayed timer elapses on an open connection: every pending operation
\* receives a MongoNetworkTimeoutError, with beforeHandshake set exactly when no
\* hello is recorded, and the connection is closed
TimeoutCloses ==
  (engine = "callback" /\ ~closed /\ tickQueue = <<>> /\ timers # {}) =>
    LET s == Cleanup(Cur, TRUE, TimeoutError)
    IN /\ s.closed
       /\ s.kQueue = EmptyMap
       /\ s.closeEmitted = closeEmitted + 1
       /\ \A c \in Range(kQueue) :
            /\ c \in s.out.called
            /\ s.cb[c].closeErrs = cb[c].closeErrs + 1
            /\ ErrorClass(s.out.err) = "MongoNetworkTimeoutError"
            /\ (s.out.err = "timeoutBeforeHandshake") <=> ~hello
\* a message is received while the delayed timer is armed: the timer is
\* cancelled and forgotten
MessageCancelsTimer ==
  (last'.op \in {"message", "orphan", "dropped", "invalidQueueSize"} /\ kDelayedTimeoutId # 0)
    => (kDelayedTimeoutId \notin timers' /\ kDelayedTimeoutId' = 0)

\* C33: when the socket's 'timeout' event has fired and the delayed timer
\* elapses before a message arrives, the connection closes with a network
\* timeout error, beforeHandshake being true exactly when no hello is recorded,
\* and every pending operation receives it; a message received first cancels
\* the delayed timer, so that timeout does not close the connection.
C33_DelayedTimeout == []TimeoutCloses /\ [][MessageCancelsTimer]_vars
\* the delayed timer elapsed after the handshake and failed a pending command
C33_Witness ==
  last.op = "delayedTimeout" /\ hello /\ closed /\ \E c \in Cmds : cb[c].closeErrs = 1

\* C34: while a command that expects a response and was dispatched with a
\* non-zero socket timeout is pending, the socket timeout stays armed:
\* processing a reply to another pending command, or one that matches no
\* pending operation, does not set the socket timeout to 0.
C34_TimeoutStaysArmed ==
  \A m \in MessagesAt(Cur) :
    LET s == OnMessageConn(Cur, m)
    IN (/\ MessageEnabled(m)
        /\ socketTimeoutMS # 0
        /\ Cur.timeout # 0
        /\ \E c \in Range(Cur.kQueue) :
             c # MatchedOp(Cur, m) /\ c \in Range(s.kQueue))
         => s.timeout # 0

\* the buffer starts with a complete message of an accepted length
CompleteAtHead ==
  /\ HasInt32(bufferPool)
  /\ GetInt32(bufferPool) >= 4
  /\ ~InvalidLength(GetInt32(bufferPool))
  /\ GetInt32(bufferPool) <= Len(bufferPool)

\* C35: in readWireProtocolMessages, when the buffered bytes hold more than one
\* complete message, every complete message is yielded, in arrival order,
\* without further socket data: once a 'data' event has been processed no
\* complete message is left in the buffer, and the messages yielded are the
\* messages sent, in order.
C35_AllCompleteYielded ==
  framing = "reading" =>
    /\ ~CompleteAtHead
    /\ \A k \in 1..Len(yielded) : Framed(k) => yielded[k] = Frame(k, sent[k])

\* ------------------------------------------------------------- cluster time
\* matched replies whose first document carries $clusterTime
ClusterTimeMessages ==
  { Message(r, q, q # 0, FALSE, DocAt(d, ct)) :
      r \in DOMAIN kQueue, q \in {0, MaxCmds + 1}, d \in Docs, ct \in 1..MaxClusterTime }
NextClusterTime ==
  \/ NextConn
  \/ \E m \in ClusterTimeMessages : OnMessage(m)
SpecClusterTime == InitConn /\ [][NextClusterTime]_vars

\* C36: whenever a reply document carrying $clusterTime is processed for a
\* matched operation on a Connection, kClusterTime is set to it and
\* CLUSTER_TIME_RECEIVED is emitted before the operation's handler is invoked,
\* also when the reply is a server error or a write-concern error.
C36_ClusterTimeRecorded ==
  \A m \in ClusterTimeMessages :
    MessageEnabled(m) =>
      LET s == OnMessageConn(Cur, m)
          ct == m.doc.clusterTime
      IN /\ s.clusterTime = ct
         /\ s.out.clusterTimeReceived = <<ct>>
         /\ s.out.called = {kQueue[m.responseTo]}
         /\ s.out.seen = [clusterTime |-> ct, clusterTimeReceived |-> <<ct>>]
\* a reply replaced a cluster time recorded earlier
C36_Witness ==
  /\ last.op = "message"
  /\ kClusterTime = 1
  /\ \E c \in Cmds : cb[c].calls = 2

\* ------------------------------------------------------------- last use
\* time passes
Tick ==
  /\ clock < MaxClock
  /\ clock' = clock + 1
  /\ last' = Did("clock", 0)
  /\ UNCHANGED <<engine, isMonitoringConnection, monitorCommands, kGeneration,
                 socketTimeoutMS, Logger, crypto, Framing, Assembly, ConnVars, TimerVars,
                 ModernVars, nextDestroy, hello, nextCmd>>
\* markAvailable(): this[kLastUseTime] = now(), in both classes
MarkAvailable ==
  /\ tickQueue = <<>>
  /\ kLastUseTime' = clock
  /\ last' = Did("markAvailable", 0)
  /\ UNCHANGED <<Config, Logger, crypto, Framing, Assembly, TimerVars, ModernVars, nextDestroy,
                 hello, nextCmd, closed, kQueue, cb, streamDestroyed, writableEnded,
                 endPending, cleanupError, startPending, closeEmitted, closeView,
                 closeListeners, tickQueue, destroys, streamTimeout, kClusterTime>>
NextLastUse ==
  \/ NextConn
  \/ NextPipelined
  \/ ModernOnTimeout
  \/ \E t \in TimerIds : ModernDelayedTimeout(t)
  \/ ModernDestroy
  \/ Tick
  \/ MarkAvailable
SpecLastUse == InitBoth /\ [][NextLastUse]_vars

\* C37: a connection's last-use timestamp changes only in markAvailable (and is
\* set in the constructor): command dispatch, reply processing, timeout
\* handling, destroy and cleanup leave it unchanged.
C37_LastUseOnlyMarkAvailable ==
  [][kLastUseTime' # kLastUseTime => last'.op = "markAvailable"]_vars
\* a command was dispatched after the connection was marked available at a
\* later time than its construction
C37_Witness ==
  last.op = "command" /\ kLastUseTime = MaxClock /\ kQueue # EmptyMap

\* ------------------------------------------------------------- CryptoConnection
\* maxWireVersion(this): 0 until the handshake is done
WireVersions == 0..MaxWireVersion
\* a CryptoConnection is a Connection constructed with or without
\* options.autoEncrypter
InitCrypto ==
  /\ InitConnFields
  /\ NoAssembly
  /\ NoLogger
  /\ kGeneration = 0
  /\ socketTimeoutMS = 0
  /\ \E a \in BOOLEAN, w \in WireVersions :
       crypto = [autoEncrypter |-> a, wireVersion |-> w, call |-> NoCryptoCall]

\* mutant: a connection that has not done its handshake is refused as too old
GateBeforeHandshake(c) ==
  IF ~c.autoEncrypter THEN "missingDependency"
  ELSE IF c.wireVersion < MinWireVersionForEncryption THEN "compatibility"
  ELSE "encrypt"
\* the checks CryptoConnection.command makes before it encrypts
Gate(c) ==
  IF ~c.autoEncrypter THEN "missingDependency"
  ELSE IF c.wireVersion = 0 THEN "forward"
  ELSE IF c.wireVersion < MinWireVersionForEncryption THEN "compatibility"
  ELSE "encrypt"

\* the caller's callback of the CryptoConnection command receives (err, doc)
CryptoCallback(call, err, doc) == [call EXCEPT !.pc = "done", !.err = err, !.doc = doc]

\* CryptoConnection.command(ns, cmd, options, callback)
CryptoCommand ==
  /\ engine = "callback"
  /\ crypto.call.pc \in {"idle", "done"}
  /\ nextCmd <= MaxCmds
  /\ LET gate == Gate(crypto)
         call == [NoCryptoCall EXCEPT !.cmd = nextCmd]
     IN CASE gate \in {"missingDependency", "compatibility"} ->
               /\ Becomes(UserCallback(Cur, nextCmd, gate, NoDoc, FALSE))
               /\ crypto' = [crypto EXCEPT !.call = CryptoCallback(call, gate, "none")]
          [] gate = "forward" ->
               /\ Becomes(Write(Cur, nextCmd, FALSE, FALSE))
               /\ crypto' = [crypto EXCEPT !.call = [call EXCEPT !.pc = "forwarded",
                                                                 !.base = "plain"]]
          [] gate = "encrypt" ->
               /\ Becomes(Cur)
               /\ crypto' = [crypto EXCEPT !.call = [call EXCEPT !.pc = "encrypting",
                                                                 !.encryptCalls = @ + 1]]
  /\ last' = Did("cryptoCommand", nextCmd)
  /\ nextCmd' = nextCmd + 1
  /\ UNCHANGED <<Config, Logger, Framing, Assembly, TimerVars, ModernVars, nextDestroy, hello>>

\* the promise of autoEncrypter.encrypt settles: with the encrypted command, or
\* rejected with an error, or rejected with a falsy value
EncryptSettles(how) ==
  /\ crypto.call.pc = "encrypting"
  /\ LET call == crypto.call
     IN CASE how = "resolved" ->
               /\ Becomes(Write(Cur, call.cmd, FALSE, FALSE))
               /\ crypto' = [crypto EXCEPT !.call = [call EXCEPT !.pc = "base",
                                                                 !.base = "encrypted"]]
          [] how = "rejected" ->
               /\ Becomes(UserCallback(Cur, call.cmd, "encryptError", NoDoc, FALSE))
               /\ crypto' = [crypto EXCEPT !.call = CryptoCallback(call, "encryptError", "null")]
          [] how = "rejectedFalsy" ->
               /\ Becomes(Cur)
               /\ crypto' = [crypto EXCEPT !.call = [call EXCEPT !.pc = "done"]]
  /\ last' = Did("encryptSettles", crypto.call.cmd)
  /\ UNCHANGED <<Config, Logger, Framing, Assembly, TimerVars, ModernVars, nextDestroy, hello,
                 nextCmd>>

\* super.command calls back: with an error, with no response, or with a response;
\* a forwarded command has the caller's callback, an encrypted one the wrapper
\* that decrypts
BaseCompletes(how) ==
  /\ crypto.call.pc \in {"forwarded", "base"}
  /\ LET call == [crypto.call EXCEPT !.baseResult = how]
         s == [Cur EXCEPT !.kQueue = Remove(@, call.cmd)]
         err == IF how = "error" THEN "baseError" ELSE "none"
     IN IF call.pc = "base" /\ how = "response"
        THEN /\ Becomes(s)
             /\ crypto' = [crypto EXCEPT !.call = [call EXCEPT !.pc = "decrypting",
                                                               !.decryptCalls = @ + 1]]
        ELSE /\ Becomes(UserCallback(s, call.cmd, err, NoDoc, FALSE))
             /\ crypto' = [crypto EXCEPT !.call =
                             CryptoCallback(call, err,
                                            IF how = "response" THEN "plain" ELSE "none")]
  /\ last' = Did("baseCompletes", crypto.call.cmd)
  /\ UNCHANGED <<Config, Logger, Framing, Assembly, TimerVars, ModernVars, nextDestroy, hello,
                 nextCmd>>

\* the promise of autoEncrypter.decrypt settles; its rejection handler calls back
\* whatever the rejection value is
DecryptSettles(how) ==
  /\ crypto.call.pc = "decrypting"
  /\ LET call == crypto.call
         err == IF how = "rejected" THEN "decryptError" ELSE "none"
     IN /\ Becomes(UserCallback(Cur, call.cmd, err, NoDoc, FALSE))
        /\ crypto' = [crypto EXCEPT !.call =
                        CryptoCallback(call, err,
                                       IF how = "resolved" THEN "decrypted" ELSE "none")]
  /\ last' = Did("decryptSettles", crypto.call.cmd)
  /\ UNCHANGED <<Config, Logger, Framing, Assembly, TimerVars, ModernVars, nextDestroy, hello,
                 nextCmd>>

Settlements == {"resolved", "rejected", "rejectedFalsy"}
NextCrypto ==
  \/ CryptoCommand
  \/ \E how \in Settlements : EncryptSettles(how)
  \/ \E how \in {"error", "noResponse", "response"} : BaseCompletes(how)
  \/ \E how \in Settlements : DecryptSettles(how)
SpecCrypto == InitCrypto /\ [][NextCrypto]_vars

\* C38: CryptoConnection.command with no auto-encrypter calls back with a
\* missing-dependency error, and with a wire version that is not 0 and below 8
\* with a compatibility error, in both cases before anything is encrypted or
\* written and without a pending entry; with wire version 0 the command is
\* forwarded to the base command unencrypted.
C38_CryptoGating ==
  [][last'.op = "cryptoCommand" =>
       LET c == last'.id
           refused == /\ cb'[c].calls = 1
                      /\ kQueue' = kQueue
                      /\ crypto'.call.encryptCalls = 0
                      /\ crypto'.call.base = "none"
       IN /\ ~crypto.autoEncrypter => (refused /\ crypto'.call.err = "missingDependency")
          /\ (/\ crypto.autoEncrypter
              /\ crypto.wireVersion # 0
              /\ crypto.wireVersion < MinWireVersionForEncryption)
               => (refused /\ crypto'.call.err = "compatibility")
          /\ (crypto.autoEncrypter /\ crypto.wireVersion = 0)
               => /\ crypto'.call.base = "plain"
                  /\ crypto'.call.encryptCalls = 0
                  /\ c \in DOMAIN kQueue'
                  /\ cb'[c].calls = 0]_vars
\* a command was forwarded unencrypted before the handshake and answered
C38_Witness ==
  /\ crypto.autoEncrypter
  /\ crypto.wireVersion = 0
  /\ crypto.call.pc = "done"
  /\ crypto.call.doc = "plain"

\* C39: for every CryptoConnection.command call that passes the gating checks
\* the caller's callback is invoked exactly once, whether encryption rejects
\* (with any value), the base command fails or returns no response, or
\* decryption rejects or succeeds; the reply is decrypted only when the base
\* command succeeded with a response.
C39_CryptoCallbackOnce ==
  (crypto.call.pc = "done" /\ Gate(crypto) = "encrypt") =>
    /\ cb[crypto.call.cmd].calls = 1
    /\ crypto.call.decryptCalls = IF crypto.call.baseResult = "response" THEN 1 ELSE 0

\* C40: a destroy callback on a Connection is never invoked before the pending
\* operations have been failed and CLOSE has been emitted, also for a second
\* destroy call made while a graceful cleanup waits for the socket's end
\* callback: whenever a destroy callback runs, cleanup has completed, CLOSE was
\* emitted and no operation pending at the closure is left unfailed.
C40_DestroyCallbackAfterClose ==
  [][last'.op = "tick" =>
       /\ ~endPending
       /\ closeEmitted >= 1
       /\ destroys'[last'.id].closeSeen >= 1
       /\ \A c \in startPending : cb[c].closeErrs >= 1]_vars
====
